---- MODULE Spec2Model ----
(***************************************************************************)
(* A model of the Matter TLV codec: the tag model (tags.rs), the type      *)
(* model (types.rs), the encoder (writer.rs) and the cursor-based reader   *)
(* (reader.rs).                                                            *)
(*                                                                         *)
(* Bytes are the integers 0..255 and a buffer is a sequence of bytes.      *)
(* A machine integer (u8..u64, i8..i64, usize, and the bit pattern of an   *)
(* f32/f64) is a 64-bit pattern written as four 16-bit limbs, most         *)
(* significant limb first: 40000000000 = 0x0000_0009_502F_9000 is          *)
(* <<0, 9, \h502F, \h9000>>.  A signed value is the sign-extended two's    *)
(* complement pattern.  A 64-bit target is assumed (usize = u64).          *)
(***************************************************************************)
EXTENDS Integers, Sequences, FiniteSets, TLC

(***************************************************************************)
(* Machine integers                                                        *)
(***************************************************************************)
RECURSIVE limbs_of(_, _)
limbs_of(x, n) ==
  IF n = 0 THEN <<>> ELSE limbs_of(x \div 65536, n - 1) \o <<x % 65536>>

\* The 64-bit pattern of the (small, possibly negative) integer x.
I(x) == limbs_of(x, 4)

\* v < 2^31: the pattern is a number TLC's integers hold.
IsSmall(v) == v[1] = 0 /\ v[2] = 0 /\ v[3] < 32768

ToInt(v) == v[3] * 65536 + v[4]

\* Unsigned comparison a <= b of two patterns.
WLe(a, b) ==
  \/ a[1] < b[1]
  \/ a[1] = b[1] /\ a[2] < b[2]
  \/ a[1] = b[1] /\ a[2] = b[2] /\ a[3] < b[3]
  \/ a[1] = b[1] /\ a[2] = b[2] /\ a[3] = b[3] /\ a[4] <= b[4]

\* usize addition: the sum modulo 2^64 and whether it overflowed.
WAdd(a, b) ==
  LET s4 == a[4] + b[4]
      s3 == a[3] + b[3] + (s4 \div 65536)
      s2 == a[2] + b[2] + (s3 \div 65536)
      s1 == a[1] + b[1] + (s2 \div 65536)
  IN [sum |-> <<s1 % 65536, s2 % 65536, s3 % 65536, s4 % 65536>>,
      overflow |-> s1 >= 65536]

\* A usize value together with whether computing it overflowed.
usize(v) == [sum |-> v, overflow |-> FALSE]

\* usize `+`
usize_add(a, b) ==
  LET s == WAdd(a.sum, b.sum)
  IN [sum |-> s.sum, overflow |-> a.overflow \/ b.overflow \/ s.overflow]

\* `x as uN` for N = 8 * w: the low w bytes of the pattern, zero-extended.
cast_unsigned(v, w) ==
  CASE w = 1 -> <<0, 0, 0, v[4] % 256>>
    [] w = 2 -> <<0, 0, 0, v[4]>>
    [] w = 4 -> <<0, 0, v[3], v[4]>>
    [] w = 8 -> v

u8_MAX  == <<0, 0, 0, 255>>
u16_MAX == <<0, 0, 0, 65535>>
u32_MAX == <<0, 0, 65535, 65535>>

limb_le(l) == <<l % 256, l \div 256>>

\* The other byte order, most significant byte first (uN::to_be_bytes).
to_be_bytes(v, w) ==
  LET le == SubSeq(limb_le(v[4]) \o limb_le(v[3]) \o limb_le(v[2]) \o limb_le(v[1]), 1, w)
  IN [i \in 1..w |-> le[w + 1 - i]]

\* uN::to_le_bytes / iN::to_le_bytes / fN::to_le_bytes for N = 8 * w.
to_le_bytes(v, w) ==
  SubSeq(limb_le(v[4]) \o limb_le(v[3]) \o limb_le(v[2]) \o limb_le(v[1]), 1, w)

\* The pattern whose big-endian bytes are the first w of `bytes`.
be_word(bytes, w, fill) ==
  LET b(i) == IF i <= w THEN bytes[w + 1 - i] ELSE fill
  IN <<b(7) + 256 * b(8), b(5) + 256 * b(6), b(3) + 256 * b(4), b(1) + 256 * b(2)>>

\* The pattern whose little-endian bytes are the first w of `bytes`, the
\* bytes above them being `fill` (0: zero extension, 255: sign extension).
le_word(bytes, w, fill) ==
  LET b(i) == IF i <= w THEN bytes[i] ELSE fill
  IN <<b(7) + 256 * b(8), b(5) + 256 * b(6), b(3) + 256 * b(4), b(1) + 256 * b(2)>>

Drop(bytes, n) == SubSeq(bytes, n + 1, Len(bytes))

(***************************************************************************)
(* errors.rs                                                               *)
(***************************************************************************)
TLVError == {"UnderRun", "EndOfTLV", "InvalidTag", "InvalidType", "ParseError"}

Err(e) == [status |-> e]

\* A panic of the Rust program (todo!, arithmetic overflow in a debug build):
\* the call returns no Result at all.
Panic == [status |-> "Panic"]

IsOk(r) == r.status = "Ok"

\* The `?` operator: `let x = r?; F(x)`.
Try(r, F(_)) == IF IsOk(r) THEN F(r) ELSE r

(***************************************************************************)
(* nom::number::complete::le_uN / le_iN / le_fN and their wrappers         *)
(***************************************************************************)
\* le_u8, le_u16, le_u32, le_u64, le_f32, le_f64 (w = 1, 2, 4, 8): Eof, which
\* the caller maps to ParseError, when fewer than w bytes are left.
parse_unsigned(bytes, w) ==
  IF Len(bytes) < w THEN Err("ParseError")
  ELSE [status |-> "Ok", rest |-> Drop(bytes, w), value |-> le_word(bytes, w, 0)]

\* le_i8, le_i16, le_i32, le_i64.
parse_signed(bytes, w) ==
  IF Len(bytes) < w THEN Err("ParseError")
  ELSE [status |-> "Ok", rest |-> Drop(bytes, w),
        value |-> le_word(bytes, w, IF bytes[w] >= 128 THEN 255 ELSE 0)]

parse_u8(bytes)  == parse_unsigned(bytes, 1)
parse_u16(bytes) == parse_unsigned(bytes, 2)
parse_u32(bytes) == parse_unsigned(bytes, 4)
parse_u64(bytes) == parse_unsigned(bytes, 8)

(***************************************************************************)
(* tags.rs                                                                 *)
(***************************************************************************)
CONTROL_BYTE_SHIFT == 5

TagControl ==
  [Anonymous |-> \h00, ContextSpecific |-> \h20,
   CommonProfile2Bytes |-> \h40, CommonProfile4Bytes |-> \h60,
   ImplicitProfile2Bytes |-> \h80, ImplicitProfile4Bytes |-> \hA0,
   FullyQualified6Bytes |-> \hC0, FullyQualified8Bytes |-> \hE0]

TagControlValues == {TagControl[n] : n \in DOMAIN TagControl}

\* A decoder of the tag control that looks at the top three bits only.
TagControl_try_from_top_bits(tag_control_byte) ==
  [status |-> "Ok", value |-> (tag_control_byte \div 32) * 32]

\* A decoder of the tag control that refuses the context-specific family.
TagControl_try_from_no_context(tag_control_byte) ==
  IF tag_control_byte \in TagControlValues \ {TagControl.ContextSpecific}
  THEN [status |-> "Ok", value |-> tag_control_byte]
  ELSE Err("InvalidTag")

\* impl TryFrom<u8> for TagControl
TagControl_try_from(tag_control_byte) ==
  IF tag_control_byte \in TagControlValues
  THEN [status |-> "Ok", value |-> tag_control_byte]
  ELSE Err("InvalidTag")

\* enum TLVTag.  Every tag carries the three numeric fields; a variant that
\* has no such field holds zero there.
Tag(variant, vendor_id, profile_number, tag_number) ==
  [variant |-> variant, vendor_id |-> vendor_id,
   profile_number |-> profile_number, tag_number |-> tag_number]

Anonymous == Tag("Anonymous", I(0), I(0), I(0))
ContextSpecific(n) == Tag("ContextSpecific", I(0), I(0), n)
CommonProfile2(n) == Tag("CommonProfile2", I(0), I(0), n)
CommonProfile4(n) == Tag("CommonProfile4", I(0), I(0), n)
ImplicitProfile2(n) == Tag("ImplicitProfile2", I(0), I(0), n)
ImplicitProfile4(n) == Tag("ImplicitProfile4", I(0), I(0), n)
FullyQualified6(v, p, n) == Tag("FullyQualified6", v, p, n)
FullyQualified8(v, p, n) == Tag("FullyQualified8", v, p, n)

\* A tag taken to occupy no octets, as by a cursor that skips only the value.
no_tag_octets(tag) == 0

\* TLVTag::octets_count
octets_count(tag) ==
  CASE tag.variant = "Anonymous" -> 0
    [] tag.variant = "ContextSpecific" -> 1
    [] tag.variant = "CommonProfile2" -> 2
    [] tag.variant = "CommonProfile4" -> 4
    [] tag.variant = "ImplicitProfile2" -> 2
    [] tag.variant = "ImplicitProfile4" -> 4
    [] tag.variant = "FullyQualified6" -> 6
    [] tag.variant = "FullyQualified8" -> 8

\* impl From<TLVTag> for TagControl
TagControl_from(tag) ==
  CASE tag.variant = "Anonymous" -> TagControl.Anonymous
    [] tag.variant = "ContextSpecific" -> TagControl.ContextSpecific
    [] tag.variant = "CommonProfile2" -> TagControl.CommonProfile2Bytes
    [] tag.variant = "CommonProfile4" -> TagControl.CommonProfile4Bytes
    [] tag.variant = "ImplicitProfile2" -> TagControl.ImplicitProfile2Bytes
    [] tag.variant = "ImplicitProfile4" -> TagControl.ImplicitProfile4Bytes
    [] tag.variant = "FullyQualified6" -> TagControl.FullyQualified6Bytes
    [] tag.variant = "FullyQualified8" -> TagControl.FullyQualified8Bytes

\* Tag bytes sized by content: a four-octet tag number that fits two octets
\* is written in two.
tag_bytes_by_content(tag) ==
  LET w == IF tag.tag_number[3] = 0 THEN 2 ELSE 4 IN
  CASE tag.variant = "Anonymous" -> <<>>
    [] tag.variant = "ContextSpecific" -> to_le_bytes(tag.tag_number, 1)
    [] tag.variant = "CommonProfile2" -> to_le_bytes(tag.tag_number, 2)
    [] tag.variant = "CommonProfile4" -> to_le_bytes(tag.tag_number, w)
    [] tag.variant = "ImplicitProfile2" -> to_le_bytes(tag.tag_number, 2)
    [] tag.variant = "ImplicitProfile4" -> to_le_bytes(tag.tag_number, w)
    [] tag.variant = "FullyQualified6" ->
         to_le_bytes(tag.vendor_id, 2) \o to_le_bytes(tag.profile_number, 2)
           \o to_le_bytes(tag.tag_number, 2)
    [] tag.variant = "FullyQualified8" ->
         to_le_bytes(tag.vendor_id, 2) \o to_le_bytes(tag.profile_number, 2)
           \o to_le_bytes(tag.tag_number, w)

tag_bytes(tag) ==
  CASE tag.variant = "Anonymous" -> <<>>
    [] tag.variant = "ContextSpecific" -> to_le_bytes(tag.tag_number, 1)
    [] tag.variant = "CommonProfile2" -> to_le_bytes(tag.tag_number, 2)
    [] tag.variant = "CommonProfile4" -> to_le_bytes(tag.tag_number, 4)
    [] tag.variant = "ImplicitProfile2" -> to_le_bytes(tag.tag_number, 2)
    [] tag.variant = "ImplicitProfile4" -> to_le_bytes(tag.tag_number, 4)
    [] tag.variant = "FullyQualified6" ->
         to_le_bytes(tag.vendor_id, 2) \o to_le_bytes(tag.profile_number, 2)
           \o to_le_bytes(tag.tag_number, 2)
    [] tag.variant = "FullyQualified8" ->
         to_le_bytes(tag.vendor_id, 2) \o to_le_bytes(tag.profile_number, 2)
           \o to_le_bytes(tag.tag_number, 4)

\* The fully qualified arms of parse_tag: vendor id, profile number, then a
\* tag number of w bytes, each read failing with ParseError when cut short.
parse_fully_qualified(variant, remaining_bytes, w) ==
  Try(parse_u16(remaining_bytes), LAMBDA v :
  Try(parse_u16(v.rest), LAMBDA p :
  Try(parse_unsigned(p.rest, w), LAMBDA n :
  [status |-> "Ok", rest |-> n.rest, tag |-> Tag(variant, v.value, p.value, n.value)])))

\* The single-number arms of parse_tag.
parse_tag_number(variant, remaining_bytes, w) ==
  Try(parse_unsigned(remaining_bytes, w), LAMBDA n :
  [status |-> "Ok", rest |-> n.rest, tag |-> Tag(variant, I(0), I(0), n.value)])

\* TLVReader::parse_tag (the same code as tags::parse_tag)
parse_tag(tag_control_byte, remaining_bytes) ==
  Try(TagControl_try_from(tag_control_byte), LAMBDA tag_control :
  CASE tag_control.value = TagControl.Anonymous ->
         [status |-> "Ok", rest |-> remaining_bytes, tag |-> Anonymous]
    [] tag_control.value = TagControl.ContextSpecific ->
         parse_tag_number("ContextSpecific", remaining_bytes, 1)
    [] tag_control.value = TagControl.CommonProfile2Bytes ->
         parse_tag_number("CommonProfile2", remaining_bytes, 2)
    [] tag_control.value = TagControl.CommonProfile4Bytes ->
         parse_tag_number("CommonProfile4", remaining_bytes, 4)
    [] tag_control.value = TagControl.ImplicitProfile2Bytes ->
         parse_tag_number("ImplicitProfile2", remaining_bytes, 2)
    [] tag_control.value = TagControl.ImplicitProfile4Bytes ->
         parse_tag_number("ImplicitProfile4", remaining_bytes, 4)
    [] tag_control.value = TagControl.FullyQualified6Bytes ->
         parse_fully_qualified("FullyQualified6", remaining_bytes, 2)
    [] tag_control.value = TagControl.FullyQualified8Bytes ->
         parse_fully_qualified("FullyQualified8", remaining_bytes, 4))

(***************************************************************************)
(* types.rs                                                                *)
(***************************************************************************)
ElementType ==
  [Int8 |-> \h00, Int16 |-> \h01, Int32 |-> \h02, Int64 |-> \h03,
   UInt8 |-> \h04, UInt16 |-> \h05, UInt32 |-> \h06, UInt64 |-> \h07,
   BooleanFalse |-> \h08, BooleanTrue |-> \h09,
   FloatingPointNumber32 |-> \h0A, FloatingPointNumber64 |-> \h0B,
   UTF8String1ByteLength |-> \h0C, UTF8String2ByteLength |-> \h0D,
   UTF8String4ByteLength |-> \h0E, UTF8String8ByteLength |-> \h0F,
   ByteString1ByteLength |-> \h10, ByteString2ByteLength |-> \h11,
   ByteString4ByteLength |-> \h12, ByteString8ByteLength |-> \h13,
   Null |-> \h14, Structure |-> \h15, Array |-> \h16, List |-> \h17,
   EndOfContainer |-> \h18]

ElementTypeValues == {ElementType[n] : n \in DOMAIN ElementType}

\* impl TryFrom<u8> for ElementType
ElementType_try_from(element_type) ==
  IF element_type \in ElementTypeValues
  THEN [status |-> "Ok", value |-> element_type]
  ELSE Err("InvalidType")

\* enum TLVType: Primitive(Predetermined(..)), Primitive(Specified(..)) and
\* Container(..), flattened to the length class, the kind and its variant.
Predetermined(prim, sub) == [class |-> "Predetermined", prim |-> prim, sub |-> sub]
Specified(prim, sub) == [class |-> "Specified", prim |-> prim, sub |-> sub]
Container(kind) == [class |-> "Container", prim |-> kind, sub |-> "-"]

OkType(t) == [status |-> "Ok", value |-> t]

\* impl TryFrom<ElementType> for TLVType
TLVType_try_from(element_type) ==
  CASE element_type = ElementType.Int8 -> OkType(Predetermined("SignedInteger", "Int8"))
    [] element_type = ElementType.Int16 -> OkType(Predetermined("SignedInteger", "Int16"))
    [] element_type = ElementType.Int32 -> OkType(Predetermined("SignedInteger", "Int32"))
    [] element_type = ElementType.Int64 -> OkType(Predetermined("SignedInteger", "Int64"))
    [] element_type = ElementType.UInt8 -> OkType(Predetermined("UnsignedInteger", "UInt8"))
    [] element_type = ElementType.UInt16 -> OkType(Predetermined("UnsignedInteger", "UInt16"))
    [] element_type = ElementType.UInt32 -> OkType(Predetermined("UnsignedInteger", "UInt32"))
    [] element_type = ElementType.UInt64 -> OkType(Predetermined("UnsignedInteger", "UInt64"))
    [] element_type = ElementType.BooleanFalse -> OkType(Predetermined("Boolean", "false"))
    [] element_type = ElementType.BooleanTrue -> OkType(Predetermined("Boolean", "true"))
    [] element_type = ElementType.FloatingPointNumber32 ->
         OkType(Predetermined("FloatingPointNumber", "FloatingPointNumber32"))
    [] element_type = ElementType.FloatingPointNumber64 ->
         OkType(Predetermined("FloatingPointNumber", "FloatingPointNumber64"))
    [] element_type = ElementType.UTF8String1ByteLength -> OkType(Specified("UTF8String", "OneOctet"))
    [] element_type = ElementType.UTF8String2ByteLength -> OkType(Specified("UTF8String", "TwoOctets"))
    [] element_type = ElementType.UTF8String4ByteLength -> OkType(Specified("UTF8String", "FourOctets"))
    [] element_type = ElementType.UTF8String8ByteLength -> OkType(Specified("UTF8String", "EightOctets"))
    [] element_type = ElementType.ByteString1ByteLength -> OkType(Specified("ByteString", "OneOctet"))
    [] element_type = ElementType.ByteString2ByteLength -> OkType(Specified("ByteString", "TwoOctets"))
    [] element_type = ElementType.ByteString4ByteLength -> OkType(Specified("ByteString", "FourOctets"))
    [] element_type = ElementType.ByteString8ByteLength -> OkType(Specified("ByteString", "EightOctets"))
    [] element_type = ElementType.Null -> OkType(Predetermined("Null", "-"))
    [] element_type = ElementType.Structure -> OkType(Container("Structure"))
    [] element_type = ElementType.Array -> OkType(Container("Array"))
    [] element_type = ElementType.List -> OkType(Container("List"))
    [] OTHER -> Err("InvalidType")

\* A value_octets_count that takes every float for a 32-bit one.
value_octets_count_single_float(t) ==
  CASE t.prim = "SignedInteger" ->
         (CASE t.sub = "Int8" -> 1 [] t.sub = "Int16" -> 2
            [] t.sub = "Int32" -> 4 [] t.sub = "Int64" -> 8)
    [] t.prim = "UnsignedInteger" ->
         (CASE t.sub = "UInt8" -> 1 [] t.sub = "UInt16" -> 2
            [] t.sub = "UInt32" -> 4 [] t.sub = "UInt64" -> 8)
    [] t.prim = "Boolean" -> 0
    [] t.prim = "FloatingPointNumber" -> 4
    [] t.prim = "Null" -> 0

\* PredeterminedLenPrimitive::value_octets_count
value_octets_count(t) ==
  CASE t.prim = "SignedInteger" ->
         (CASE t.sub = "Int8" -> 1 [] t.sub = "Int16" -> 2
            [] t.sub = "Int32" -> 4 [] t.sub = "Int64" -> 8)
    [] t.prim = "UnsignedInteger" ->
         (CASE t.sub = "UInt8" -> 1 [] t.sub = "UInt16" -> 2
            [] t.sub = "UInt32" -> 4 [] t.sub = "UInt64" -> 8)
    [] t.prim = "Boolean" -> 0
    [] t.prim = "FloatingPointNumber" ->
         (CASE t.sub = "FloatingPointNumber32" -> 4
            [] t.sub = "FloatingPointNumber64" -> 8)
    [] t.prim = "Null" -> 0

\* SpecifiedLenPrimitive::length_field_size (through UTF8StrLen / ByteStrLen):
\* the TLVFieldSize of the same name.
length_field_size(t) ==
  CASE t.sub = "OneOctet" -> "OneOctet"
    [] t.sub = "TwoOctets" -> "TwoOctets"
    [] t.sub = "FourOctets" -> "FourOctets"
    [] t.sub = "EightOctets" -> "EightOctets"

\* TLVFieldSize::len_octets_count
len_octets_count(field_size) ==
  CASE field_size = "OneOctet" -> 1
    [] field_size = "TwoOctets" -> 2
    [] field_size = "FourOctets" -> 4
    [] field_size = "EightOctets" -> 8

\* A parse_value for String whose bounds are exclusive.
parse_value_String_below(val_len) ==
  IF ~WLe(u8_MAX, val_len)
    THEN [element_type |-> ElementType.UTF8String1ByteLength,
          len_bytes |-> to_le_bytes(cast_unsigned(val_len, 1), 1)]
  ELSE IF ~WLe(u16_MAX, val_len)
    THEN [element_type |-> ElementType.UTF8String2ByteLength,
          len_bytes |-> to_le_bytes(cast_unsigned(val_len, 2), 2)]
  ELSE IF ~WLe(u32_MAX, val_len)
    THEN [element_type |-> ElementType.UTF8String4ByteLength,
          len_bytes |-> to_le_bytes(cast_unsigned(val_len, 4), 4)]
  ELSE [element_type |-> ElementType.UTF8String8ByteLength,
        len_bytes |-> to_le_bytes(cast_unsigned(val_len, 8), 8)]

\* impl TLVPrimitive for String, parse_value: the element type and the length
\* bytes chosen from the length val_len of the value's bytes (which are
\* returned as they are).
parse_value_String(val_len) ==
  IF WLe(val_len, u8_MAX)
    THEN [element_type |-> ElementType.UTF8String1ByteLength,
          len_bytes |-> to_le_bytes(cast_unsigned(val_len, 1), 1)]
  ELSE IF WLe(val_len, u16_MAX)
    THEN [element_type |-> ElementType.UTF8String2ByteLength,
          len_bytes |-> to_le_bytes(cast_unsigned(val_len, 2), 2)]
  ELSE IF WLe(val_len, u32_MAX)
    THEN [element_type |-> ElementType.UTF8String4ByteLength,
          len_bytes |-> to_le_bytes(cast_unsigned(val_len, 4), 4)]
  ELSE [element_type |-> ElementType.UTF8String8ByteLength,
        len_bytes |-> to_le_bytes(cast_unsigned(val_len, 8), 8)]

\* impl TLVPrimitive for Vec<u8>, parse_value.
parse_value_Vec(val_len) ==
  IF WLe(val_len, u8_MAX)
    THEN [element_type |-> ElementType.ByteString1ByteLength,
          len_bytes |-> to_le_bytes(cast_unsigned(val_len, 1), 1)]
  ELSE IF WLe(val_len, u16_MAX)
    THEN [element_type |-> ElementType.ByteString2ByteLength,
          len_bytes |-> to_le_bytes(cast_unsigned(val_len, 2), 2)]
  ELSE IF WLe(val_len, u32_MAX)
    THEN [element_type |-> ElementType.ByteString4ByteLength,
          len_bytes |-> to_le_bytes(cast_unsigned(val_len, 4), 4)]
  ELSE [element_type |-> ElementType.ByteString8ByteLength,
        len_bytes |-> to_le_bytes(cast_unsigned(val_len, 8), 8)]

(***************************************************************************)
(* writer.rs                                                               *)
(***************************************************************************)
\* u8 | u8
RECURSIVE bit_or(_, _, _)
bit_or(a, b, bits) ==
  IF bits = 0 THEN 0
  ELSE (IF a % 2 = 1 \/ b % 2 = 1 THEN 1 ELSE 0)
         + 2 * bit_or(a \div 2, b \div 2, bits - 1)

\* An element laid out with the length field behind the value.
encode_primitive_length_last(tag, element_type, len_bytes, val_bytes) ==
  LET tag_control == TagControl_from(tag)
      control_byte == bit_or(tag_control, element_type, 8)
  IN <<control_byte>> \o tag_bytes(tag) \o val_bytes \o len_bytes

encode_primitive(tag, element_type, len_bytes, val_bytes) ==
  LET tag_control == TagControl_from(tag)
      control_byte == bit_or(tag_control, element_type, 8)
  IN <<control_byte>> \o tag_bytes(tag) \o len_bytes \o val_bytes

\* A value handed to the encoder: its Rust type (kind) and, by kind, the
\* integer or float bit pattern (num), the boolean (flag) or the bytes of the
\* String / Bytes (bytes).
Value(kind, num, flag, bytes) ==
  [kind |-> kind, num |-> num, flag |-> flag, bytes |-> bytes]

Num(kind, v) == Value(kind, v, FALSE, <<>>)
Bool(b) == Value("bool", I(0), b, <<>>)
Str(bytes) == Value("String", I(0), FALSE, bytes)
Bytes(bytes) == Value("Bytes", I(0), FALSE, bytes)
NullValue == Value("null", I(0), FALSE, <<>>)

\* A length prefix chosen with exclusive bounds (val_len < MAX), which widens
\* the field one length early.
len_prefix_exclusive(types, val_len) ==
  IF ~WLe(u8_MAX, val_len)
    THEN [element_type |-> types[1], len_bytes |-> to_le_bytes(cast_unsigned(val_len, 1), 1)]
  ELSE IF ~WLe(u16_MAX, val_len)
    THEN [element_type |-> types[2], len_bytes |-> to_le_bytes(cast_unsigned(val_len, 2), 2)]
  ELSE IF ~WLe(u32_MAX, val_len)
    THEN [element_type |-> types[3], len_bytes |-> to_le_bytes(cast_unsigned(val_len, 4), 4)]
  ELSE [element_type |-> types[4], len_bytes |-> to_le_bytes(cast_unsigned(val_len, 8), 8)]

\* The length prefix chosen by impl TLVEncode for String / Bytes from the
\* payload length val_len: the element type (types lists the 1-, 2-, 4- and
\* 8-byte-length codes of the string kind) and the length bytes.
len_prefix(types, val_len) ==
  IF WLe(val_len, u8_MAX)
    THEN [element_type |-> types[1], len_bytes |-> to_le_bytes(cast_unsigned(val_len, 1), 1)]
  ELSE IF WLe(val_len, u16_MAX)
    THEN [element_type |-> types[2], len_bytes |-> to_le_bytes(cast_unsigned(val_len, 2), 2)]
  ELSE IF WLe(val_len, u32_MAX)
    THEN [element_type |-> types[3], len_bytes |-> to_le_bytes(cast_unsigned(val_len, 4), 4)]
  ELSE [element_type |-> types[4], len_bytes |-> to_le_bytes(cast_unsigned(val_len, 8), 8)]

UTF8StringTypes ==
  <<ElementType.UTF8String1ByteLength, ElementType.UTF8String2ByteLength,
    ElementType.UTF8String4ByteLength, ElementType.UTF8String8ByteLength>>

ByteStringTypes ==
  <<ElementType.ByteString1ByteLength, ElementType.ByteString2ByteLength,
    ElementType.ByteString4ByteLength, ElementType.ByteString8ByteLength>>

\* impl TLVEncode for String
encode_String(val_bytes, tag) ==
  LET p == len_prefix(UTF8StringTypes, I(Len(val_bytes)))
  IN encode_primitive(tag, p.element_type, p.len_bytes, val_bytes)

\* impl TLVEncode for Bytes
encode_Bytes(val_bytes, tag) ==
  LET p == len_prefix(ByteStringTypes, I(Len(val_bytes)))
  IN encode_primitive(tag, p.element_type, p.len_bytes, val_bytes)

encode_null_with_tag(tag) == encode_primitive(tag, ElementType.Null, <<>>, <<>>)

encode_null == encode_null_with_tag(Anonymous)

\* TLVEncode::encode_tlv_with_tag, one arm per implementing type (and
\* encode_null_with_tag for the null element, which has no Rust value).
encode_tlv_with_tag(value, tag) ==
  CASE value.kind = "i8" -> encode_primitive(tag, ElementType.Int8, <<>>, to_le_bytes(value.num, 1))
    [] value.kind = "i16" -> encode_primitive(tag, ElementType.Int16, <<>>, to_le_bytes(value.num, 2))
    [] value.kind = "i32" -> encode_primitive(tag, ElementType.Int32, <<>>, to_le_bytes(value.num, 4))
    [] value.kind = "i64" -> encode_primitive(tag, ElementType.Int64, <<>>, to_le_bytes(value.num, 8))
    [] value.kind = "u8" -> encode_primitive(tag, ElementType.UInt8, <<>>, to_le_bytes(value.num, 1))
    [] value.kind = "u16" -> encode_primitive(tag, ElementType.UInt16, <<>>, to_le_bytes(value.num, 2))
    [] value.kind = "u32" -> encode_primitive(tag, ElementType.UInt32, <<>>, to_le_bytes(value.num, 4))
    [] value.kind = "u64" -> encode_primitive(tag, ElementType.UInt64, <<>>, to_le_bytes(value.num, 8))
    [] value.kind = "f32" ->
         encode_primitive(tag, ElementType.FloatingPointNumber32, <<>>, to_le_bytes(value.num, 4))
    [] value.kind = "f64" ->
         encode_primitive(tag, ElementType.FloatingPointNumber64, <<>>, to_le_bytes(value.num, 8))
    [] value.kind = "bool" ->
         encode_primitive(tag, IF value.flag THEN ElementType.BooleanTrue
                               ELSE ElementType.BooleanFalse, <<>>, <<>>)
    [] value.kind = "String" -> encode_String(value.bytes, tag)
    [] value.kind = "Bytes" -> encode_Bytes(value.bytes, tag)
    [] value.kind = "null" -> encode_null_with_tag(tag)

\* An untagged wrapper that tags with the context-specific tag 0.
encode_tlv_context_zero(value) == encode_tlv_with_tag(value, ContextSpecific(I(0)))

\* TLVEncode::encode_tlv
encode_tlv(value) == encode_tlv_with_tag(value, Anonymous)

(***************************************************************************)
(* reader.rs                                                               *)
(*                                                                         *)
(* A TLVReader is the pair (payload, len_read).  Every operation below     *)
(* takes the pair and returns the Result of the call: status "Ok" with the *)
(* returned fields, or the TLVError as status.                             *)
(***************************************************************************)
\* TLVReader::current_element
current_element(p, c, offset) == Drop(p, c + offset)

\* The first byte split into two nibbles.
parse_control_byte_nibbles(p, c) ==
  LET input == current_element(p, c, 0) IN
  IF Len(input) = 0 THEN Err("ParseError")
  ELSE [status |-> "Ok", rest |-> Drop(input, 1),
        tag_control_byte |-> input[1] \div 16,
        element_type_byte |-> input[1] % 16]

\* TLVReader::parse_control_byte: the first byte split into its top 3 and
\* bottom 5 bits; nom fails on an empty input.
parse_control_byte(p, c) ==
  LET input == current_element(p, c, 0) IN
  IF Len(input) = 0 THEN Err("ParseError")
  ELSE [status |-> "Ok", rest |-> Drop(input, 1),
        tag_control_byte |-> input[1] \div 32,
        element_type_byte |-> input[1] % 32]

\* The first byte split into 3, 2 and 3 bits.
parse_control_byte_with_wide_field_size(p, c) ==
  LET input == current_element(p, c, 0) IN
  IF Len(input) = 0 THEN Err("ParseError")
  ELSE [status |-> "Ok", rest |-> Drop(input, 1),
        tag_control |-> input[1] \div 32,
        tlv_type |-> (input[1] \div 8) % 4,
        field_size |-> input[1] % 8]

\* TLVReader::parse_control_byte_with_field_size: the first byte split into
\* its top 3, middle 3 and bottom 2 bits; nom fails on an empty input.
parse_control_byte_with_field_size(p, c) ==
  LET input == current_element(p, c, 0) IN
  IF Len(input) = 0 THEN Err("ParseError")
  ELSE [status |-> "Ok", rest |-> Drop(input, 1),
        tag_control |-> input[1] \div 32,
        tlv_type |-> (input[1] \div 4) % 8,
        field_size |-> input[1] % 4]

\* TLVReader::tlv_type
tlv_type(element_type_byte) ==
  Try(ElementType_try_from(element_type_byte), LAMBDA element_type :
  TLVType_try_from(element_type.value))

\* u8 << 4
shl_by_four(b) == (b * 2^4) % 256

\* u8 << CONTROL_BYTE_SHIFT
shl(b) == (b * 2^CONTROL_BYTE_SHIFT) % 256

\* TLVReader::parse_control_byte_for_tag_and_type
parse_control_byte_for_tag_and_type(p, c) ==
  Try(parse_control_byte(p, c), LAMBDA cb :
  Try(parse_tag(shl(cb.tag_control_byte), cb.rest), LAMBDA tg :
  Try(tlv_type(cb.element_type_byte), LAMBDA ty :
  [status |-> "Ok", rest |-> tg.rest, tlv_tag |-> tg.tag, tlv_type |-> ty.value])))

\* A length field read as one octet whatever width the type code announces.
parse_field_size_one_octet(field_size, bytes) ==
  IF 1 > Len(bytes) THEN Err("UnderRun")
  ELSE parse_unsigned(bytes, 1)

\* TLVReader::parse_field_size; `as usize` keeps the value (64-bit target).
parse_field_size(field_size, bytes) ==
  IF len_octets_count(field_size) > Len(bytes) THEN Err("UnderRun")
  ELSE parse_unsigned(bytes, len_octets_count(field_size))

\* The bytes a length field announces, as many of them as there are.
extract_field_sized_bytes_unchecked(field_size, bytes) ==
  Try(parse_field_size(field_size, bytes), LAMBDA fs :
  IF ~IsSmall(fs.value) \/ ToInt(fs.value) > Len(fs.rest)
    THEN [status |-> "Ok", bytes |-> fs.rest]
  ELSE [status |-> "Ok", bytes |-> SubSeq(fs.rest, 1, ToInt(fs.value))])

\* TLVFieldSize::extract_field_sized_bytes
extract_field_sized_bytes(field_size, bytes) ==
  Try(parse_field_size(field_size, bytes), LAMBDA fs :
  IF ~IsSmall(fs.value) \/ ToInt(fs.value) > Len(fs.rest) THEN Err("UnderRun")
  ELSE [status |-> "Ok", bytes |-> SubSeq(fs.rest, 1, ToInt(fs.value))])

\* TLVReader::parse_primitive_len: (length octets, value octets), the second
\* a usize pattern.
parse_primitive_len(primitive_length_type, remaining_bytes) ==
  IF primitive_length_type.class = "Predetermined"
  THEN [status |-> "Ok", rest |-> remaining_bytes, length_octets_count |-> 0,
        value_octets_count |-> I(value_octets_count(primitive_length_type))]
  ELSE Try(parse_field_size(length_field_size(primitive_length_type), remaining_bytes),
           LAMBDA fs :
           [status |-> "Ok", rest |-> fs.rest,
            length_octets_count |->
              len_octets_count(length_field_size(primitive_length_type)),
            value_octets_count |-> fs.value])

\* The end of TLVReader::next: the comparison of next_element with the
\* payload length, and the new cursor (len_read, in an Ok result).  A sum
\* that overflowed has panicked in a build with overflow checks and has
\* wrapped in a build without them.
next_position(p, next_element, overflow_checks) ==
  IF next_element.overflow /\ overflow_checks THEN Panic
  ELSE IF ~IsSmall(next_element.sum) \/ ToInt(next_element.sum) > Len(p)
    THEN Err("UnderRun")
  ELSE IF ToInt(next_element.sum) = Len(p) THEN Err("EndOfTLV")
  ELSE [status |-> "Ok", len_read |-> ToInt(next_element.sum)]

\* TLVReader::next.  An Ok result carries the new cursor; on every other
\* result the cursor is left as it was.
next(p, c, overflow_checks) ==
  Try(parse_control_byte_for_tag_and_type(p, c), LAMBDA e :
  IF e.tlv_type.class = "Container"
    THEN Panic                          \* todo!("Skip to the End of Container")
  ELSE
  Try(parse_primitive_len(e.tlv_type, e.rest), LAMBDA l :
  LET length_and_value_octets_count ==
        usize_add(usize(I(l.length_octets_count)), usize(l.value_octets_count))
      element_len ==
        usize_add(usize_add(length_and_value_octets_count,
                            usize(I(octets_count(e.tlv_tag)))),
                  usize(I(1)))
      next_element == usize_add(usize(I(c)), element_len)
  IN next_position(p, next_element, overflow_checks)))

\* TLVReader::read_tag
read_tag(p, c) ==
  Try(parse_control_byte_for_tag_and_type(p, c), LAMBDA e :
  [status |-> "Ok", tag |-> e.tlv_tag])

\* The integer and float accessors: the element's type must equal the
\* TLVType of `element_type`; the value is then read with le_uN / le_fN
\* (signed = FALSE) or le_iN (signed = TRUE) of w bytes.
read_number(p, c, kind, element_type, w, signed) ==
  Try(parse_control_byte_for_tag_and_type(p, c), LAMBDA e :
  Try(TLVType_try_from(element_type), LAMBDA want :
  IF e.tlv_type = want.value
  THEN Try(IF signed THEN parse_signed(e.rest, w) ELSE parse_unsigned(e.rest, w),
           LAMBDA v : [status |-> "Ok", value |-> Num(kind, v.value)])
  ELSE Err("InvalidType")))

read_u8(p, c)  == read_number(p, c, "u8", ElementType.UInt8, 1, FALSE)
read_u16(p, c) == read_number(p, c, "u16", ElementType.UInt16, 2, FALSE)
read_u32(p, c) == read_number(p, c, "u32", ElementType.UInt32, 4, FALSE)
read_u64(p, c) == read_number(p, c, "u64", ElementType.UInt64, 8, FALSE)
read_i8(p, c)  == read_number(p, c, "i8", ElementType.Int8, 1, TRUE)
read_i16(p, c) == read_number(p, c, "i16", ElementType.Int16, 2, TRUE)
read_i32(p, c) == read_number(p, c, "i32", ElementType.Int32, 4, TRUE)
read_i64(p, c) == read_number(p, c, "i64", ElementType.Int64, 8, TRUE)
read_f32(p, c) == read_number(p, c, "f32", ElementType.FloatingPointNumber32, 4, FALSE)
read_f64(p, c) == read_number(p, c, "f64", ElementType.FloatingPointNumber64, 8, FALSE)

\* TLVReader::read_bool
read_bool(p, c) ==
  Try(parse_control_byte_for_tag_and_type(p, c), LAMBDA e :
  Try(TLVType_try_from(ElementType.BooleanTrue), LAMBDA t :
  IF e.tlv_type = t.value THEN [status |-> "Ok", value |-> Bool(TRUE)]
  ELSE
  Try(TLVType_try_from(ElementType.BooleanFalse), LAMBDA f :
  IF e.tlv_type = f.value THEN [status |-> "Ok", value |-> Bool(FALSE)]
  ELSE Err("InvalidType"))))

\* TLVReader::read_null
read_null(p, c) ==
  Try(parse_control_byte_for_tag_and_type(p, c), LAMBDA e :
  Try(TLVType_try_from(ElementType.Null), LAMBDA n :
  IF e.tlv_type = n.value THEN [status |-> "Ok", value |-> NullValue]
  ELSE Err("InvalidType")))

\* A string read that accepts a string element of either kind.
read_str_bytes_of_any_kind(p, c, prim) ==
  Try(parse_control_byte_for_tag_and_type(p, c), LAMBDA e :
  IF e.tlv_type.class # "Specified" THEN Err("InvalidType")
  ELSE
  Try(parse_field_size(length_field_size(e.tlv_type), e.rest), LAMBDA fs :
  IF ~IsSmall(fs.value) \/ ToInt(fs.value) > Len(fs.rest) THEN Err("UnderRun")
  ELSE [status |-> "Ok", bytes |-> SubSeq(fs.rest, 1, ToInt(fs.value))]))

\* The common part of read_byte_str / read_char_str: the element must be a
\* string of kind `prim`; its length field is read and that many bytes taken.
read_str_bytes(p, c, prim) ==
  Try(parse_control_byte_for_tag_and_type(p, c), LAMBDA e :
  IF ~(e.tlv_type.class = "Specified" /\ e.tlv_type.prim = prim)
    THEN Err("InvalidType")
  ELSE
  Try(parse_field_size(length_field_size(e.tlv_type), e.rest), LAMBDA fs :
  IF ~IsSmall(fs.value) \/ ToInt(fs.value) > Len(fs.rest) THEN Err("UnderRun")
  ELSE [status |-> "Ok", bytes |-> SubSeq(fs.rest, 1, ToInt(fs.value))]))

\* TLVReader::read_byte_str
read_byte_str(p, c) ==
  Try(read_str_bytes(p, c, "ByteString"), LAMBDA b :
  [status |-> "Ok", value |-> Bytes(b.bytes)])

\* std::str::from_utf8 succeeds: the bytes are well-formed UTF-8.  A run of
\* ASCII bytes is passed over in one step.
RECURSIVE is_utf8(_)
is_utf8(b) ==
  LET n == Len(b)
      cont(i) == i <= n /\ b[i] \in 128..191
      ascii == CHOOSE k \in 0..n :
                 /\ \A i \in 1..k : b[i] <= 127
                 /\ k < n => b[k + 1] > 127
  IN IF ascii = n THEN TRUE
     ELSE IF ascii > 0 THEN is_utf8(Drop(b, ascii))
     ELSE IF b[1] \in 194..223 THEN cont(2) /\ is_utf8(Drop(b, 2))
     ELSE IF b[1] = 224 THEN n >= 2 /\ b[2] \in 160..191 /\ cont(3) /\ is_utf8(Drop(b, 3))
     ELSE IF b[1] \in (225..236) \cup (238..239)
       THEN cont(2) /\ cont(3) /\ is_utf8(Drop(b, 3))
     ELSE IF b[1] = 237 THEN n >= 2 /\ b[2] \in 128..159 /\ cont(3) /\ is_utf8(Drop(b, 3))
     ELSE IF b[1] = 240
       THEN n >= 2 /\ b[2] \in 144..191 /\ cont(3) /\ cont(4) /\ is_utf8(Drop(b, 4))
     ELSE IF b[1] \in 241..243
       THEN cont(2) /\ cont(3) /\ cont(4) /\ is_utf8(Drop(b, 4))
     ELSE IF b[1] = 244
       THEN n >= 2 /\ b[2] \in 128..143 /\ cont(3) /\ cont(4) /\ is_utf8(Drop(b, 4))
     ELSE FALSE

\* TLVReader::read_char_str
read_char_str(p, c) ==
  Try(read_str_bytes(p, c, "UTF8String"), LAMBDA b :
  IF ~is_utf8(b.bytes) THEN Err("ParseError")
  ELSE [status |-> "Ok", value |-> Str(b.bytes)])

(***************************************************************************)
(* The inputs the model draws from                                         *)
(***************************************************************************)
\* Most elements the byte producer encodes before a Reader is made.
MaxElems == 3

\* Most bytes missing from the end of the buffer the Reader is given.
MaxCut == 1

TagSamples ==
  {Anonymous,
   ContextSpecific(I(0)), ContextSpecific(I(1)), ContextSpecific(I(255)),
   CommonProfile2(I(\hA55A)),
   CommonProfile4(I(1)), CommonProfile4(<<0, 0, \hAA55, \hFEED>>),
   ImplicitProfile2(I(1)),
   ImplicitProfile4(I(100000)),
   FullyQualified6(I(65521), I(57069), I(1)),
   FullyQualified8(I(65521), I(57069), <<0, 0, \hAA55, \hFEED>>)}

\* Values of every encodable Rust type: the extremes of each width, the
\* vectors of the unit tests, byte orders that are not palindromes.  A
\* float is its IEEE bit pattern (17.9, -infinity).
ValueSamples ==
  {Num("u8", I(0)), Num("u8", I(42)), Num("u8", I(255)),
   Num("u16", I(0)), Num("u16", I(65530)),
   Num("u32", I(237998115)), Num("u32", <<0, 0, 65535, 65535>>),
   Num("u64", <<0, 9, \h502F, \h9000>>), Num("u64", <<65535, 65535, 65535, 65535>>),
   Num("i8", I(-128)), Num("i8", I(127)),
   Num("i16", I(-23254)), Num("i16", I(10917)),
   Num("i32", I(-904534)), Num("i32", I(237998115)),
   Num("i64", <<\hFFFF, \hFFF6, \hAFD0, \h7000>>), Num("i64", <<\h8000, 0, 0, 0>>),
   Num("f32", <<0, 0, \h418F, \h3333>>), Num("f32", <<0, 0, \hFF80, 0>>),
   Num("f64", <<\h4031, \hE666, \h6666, \h6666>>), Num("f64", <<\hFFF0, 0, 0, 0>>),
   Bool(FALSE), Bool(TRUE),
   NullValue,
   Str(<<>>), Str(<<72, 101, 108, 108, 111, 33>>),
   Str(<<84, 115, 99, 104, 195, 188, 115>>),
   Bytes(<<>>), Bytes(<<0, 1, 2, 3, 4>>), Bytes(<<255, 24>>)}

Repeat(b, n) == [i \in 1..n |-> b]

\* Strings on both sides of the first length-field boundary.
LongValues ==
  {Str(Repeat(65, 255)), Str(Repeat(65, 256)),
   Bytes(Repeat(7, 255)), Bytes(Repeat(7, 256))}

\* Payload lengths around every length-field boundary, as usize patterns;
\* the encoders' choice of length field is applied to these without the
\* payload itself.
LenSamples ==
  {I(0), I(1), I(254), I(255), I(256), I(257), I(65534), I(65535), I(65536),
   I(65537), <<0, 0, 65535, 65534>>, <<0, 0, 65535, 65535>>, <<0, 1, 0, 0>>,
   <<0, 1, 0, 1>>, <<65535, 65535, 65535, 65535>>}

Element(tag, value) == [tag |-> tag, value |-> value]

Elements ==
  {Element(t, v) : t \in TagSamples, v \in ValueSamples}
    \cup {Element(Anonymous, v) : v \in LongValues}

\* One tag of each variant.
FamilyTags ==
  {Anonymous, ContextSpecific(I(255)), CommonProfile2(I(\hA55A)), CommonProfile4(I(1)),
   ImplicitProfile2(I(1)), ImplicitProfile4(I(100000)),
   FullyQualified6(I(65521), I(57069), I(1)),
   FullyQualified8(I(65521), I(57069), <<0, 0, \hAA55, \hFEED>>)}

\* The elements that buffers of more than one element are made of.
SeqPool ==
  {Element(Anonymous, Num("u64", <<0, 9, \h502F, \h9000>>)),
   Element(FullyQualified8(I(65521), I(57069), <<0, 0, \hAA55, \hFEED>>),
           Num("i32", I(-904534))),
   Element(ImplicitProfile4(I(100000)), NullValue),
   Element(FullyQualified6(I(65521), I(57069), I(1)),
           Str(<<72, 101, 108, 108, 111, 33>>))}

\* Buffers that no encoder produced: every control byte alone and followed
\* by enough bytes to hold any tag and length field, and two containers
\* (a structure of two members, an array holding an empty structure), each
\* followed by one more element.
RawTails == {<<>>, Repeat(255, 17)}

ContainerBuffers ==
  {<<\h15, \h24, 1, 42, \h29, 2, \h18, \h04, 7>>,
   <<\h36, 5, \h15, \h18, \h18, \h08>>}

\* String elements as another encoder may emit them through
\* encode_primitive: the length field of any of the four widths, minimal or
\* not, alone in the buffer or followed by one more element (the boolean
\* false).
WideTags == {Anonymous, ContextSpecific(I(1)), FullyQualified6(I(65521), I(57069), I(1))}

WidePayloads == {<<>>, <<72, 105>>, <<255, 24>>}

WideBuffers ==
  {encode_primitive(tag, types[i], to_le_bytes(I(Len(b)), 2^(i - 1)), b) \o follow :
     tag \in WideTags, types \in {UTF8StringTypes, ByteStringTypes}, i \in 1..4,
     b \in WidePayloads, follow \in {<<>>, <<ElementType.BooleanFalse>>}}

RawBuffers ==
  {<<b>> \o t : b \in 0..255, t \in RawTails} \cup ContainerBuffers \cup WideBuffers

(***************************************************************************)
(* The state machine: a byte producer fills `out` with encoded elements   *)
(* (or hands over raw bytes); TLVReader::new copies a prefix of it into    *)
(* `payload`; the Reader's operations are then called in any order.        *)
(***************************************************************************)
VARIABLES
  phase,     \* "write": the buffer is being produced; "read": a Reader exists
  out,       \* the bytes produced so far
  input,     \* what was produced: the elements encoded (elems), whether the
             \* bytes are raw (raw), the bytes cut from the end (cut)
  payload,   \* TLVReader.payload
  len_read,  \* TLVReader.len_read
  nexts,     \* calls of next() that returned Ok
  res,       \* the last call and its result; `at` is the cursor it started from
  readers    \* the Readers made over one buffer (phase "readers"): for each its
             \* payload, its len_read and the calls made on it with their results

vars == <<phase, out, input, payload, len_read, nexts, res, readers>>

Accessors ==
  {"read_u8", "read_u16", "read_u32", "read_u64",
   "read_i8", "read_i16", "read_i32", "read_i64",
   "read_f32", "read_f64", "read_bool", "read_null",
   "read_byte_str", "read_char_str"}

call(acc, p, c) ==
  CASE acc = "read_u8" -> read_u8(p, c)
    [] acc = "read_u16" -> read_u16(p, c)
    [] acc = "read_u32" -> read_u32(p, c)
    [] acc = "read_u64" -> read_u64(p, c)
    [] acc = "read_i8" -> read_i8(p, c)
    [] acc = "read_i16" -> read_i16(p, c)
    [] acc = "read_i32" -> read_i32(p, c)
    [] acc = "read_i64" -> read_i64(p, c)
    [] acc = "read_f32" -> read_f32(p, c)
    [] acc = "read_f64" -> read_f64(p, c)
    [] acc = "read_bool" -> read_bool(p, c)
    [] acc = "read_null" -> read_null(p, c)
    [] acc = "read_byte_str" -> read_byte_str(p, c)
    [] acc = "read_char_str" -> read_char_str(p, c)

Init ==
  /\ phase = "write"
  /\ \/ out = <<>> /\ input = [elems |-> <<>>, raw |-> FALSE, cut |-> 0]
     \/ out \in RawBuffers /\ input = [elems |-> <<>>, raw |-> TRUE, cut |-> 0]
  /\ payload = <<>>
  /\ len_read = 0
  /\ nexts = 0
  /\ res = [op |-> "none", status |-> "Ok"]
  /\ readers = <<>>

\* value.encode_tlv_with_tag(tag) (encode_null_with_tag(tag) for null),
\* appended to the buffer by the caller.
Write(e) ==
  /\ phase = "write"
  /\ ~input.raw
  /\ Len(input.elems) < MaxElems
  /\ Len(input.elems) > 0 => input.elems[1] \in SeqPool /\ e \in SeqPool
  /\ LET element == encode_tlv_with_tag(e.value, e.tag) IN
       /\ out' = out \o element
       /\ res' = [op |-> "encode", status |-> "Ok", bytes |-> element]
  /\ input' = [input EXCEPT !.elems = Append(@, e)]
  /\ UNCHANGED <<phase, payload, len_read, nexts, readers>>

\* value.encode_tlv() (encode_null() for null), appended to the empty buffer
\* by the caller.
WriteUntagged(value) ==
  /\ phase = "write"
  /\ ~input.raw
  /\ input.elems = <<>>
  /\ LET element == IF value.kind = "null" THEN encode_null ELSE encode_tlv(value) IN
       /\ out' = out \o element
       /\ res' = [op |-> "encode_tlv", status |-> "Ok", bytes |-> element]
  /\ input' = [input EXCEPT !.elems = Append(@, Element(Anonymous, value))]
  /\ UNCHANGED <<phase, payload, len_read, nexts, readers>>

\* The length field that impl TLVEncode for String (types = UTF8StringTypes)
\* and for Bytes (ByteStringTypes) choose for a payload of val_len bytes.
EncodeLen(types, val_len) ==
  /\ phase = "write"
  /\ ~input.raw
  /\ out = <<>>
  /\ res' = [op |-> "len_prefix", status |-> "Ok", types |-> types, val_len |-> val_len]
               @@ len_prefix(types, val_len)
  /\ UNCHANGED <<phase, out, input, payload, len_read, nexts, readers>>

\* encode_primitive(tag, element_type, &[], &[]) for any member of
\* ElementType.
EncodePrimitive(tag, element_type) ==
  /\ phase = "write"
  /\ ~input.raw
  /\ out = <<>>
  /\ res' = [op |-> "encode_primitive", status |-> "Ok", tag |-> tag,
              element_type |-> element_type,
              bytes |-> encode_primitive(tag, element_type, <<>>, <<>>)]
  /\ UNCHANGED <<phase, out, input, payload, len_read, nexts, readers>>

\* TLVReader::new over the produced bytes, or, for one encoded element, over
\* all but its last k bytes.
NewReader(k) ==
  /\ phase = "write"
  /\ k = 0 \/ (Len(input.elems) = 1 /\ k <= Len(out))
  /\ phase' = "read"
  /\ payload' = SubSeq(out, 1, Len(out) - k)
  /\ len_read' = 0
  /\ input' = [input EXCEPT !.cut = k]
  /\ res' = [op |-> "new", status |-> "Ok"]
  /\ UNCHANGED <<out, nexts, readers>>

\* A Reader can be called: it exists and no call has panicked.
Callable == phase = "read" /\ res.status # "Panic"

\* An accessor that, having returned a value, steps the cursor past the
\* control byte.
ReadAndAdvance(acc) ==
  /\ Callable
  /\ LET r == call(acc, payload, len_read) IN
       /\ res' = [op |-> acc, at |-> len_read] @@ r
       /\ len_read' = IF IsOk(r) /\ len_read + 1 < Len(payload)
                       THEN len_read + 1 ELSE len_read
  /\ UNCHANGED <<phase, out, input, payload, nexts, readers>>

\* One of the typed accessors read_u8 .. read_char_str.
Read(acc) ==
  /\ Callable
  /\ res' = [op |-> acc, at |-> len_read] @@ call(acc, payload, len_read)
  /\ UNCHANGED <<phase, out, input, payload, len_read, nexts, readers>>

ReadTag ==
  /\ Callable
  /\ res' = [op |-> "read_tag", at |-> len_read] @@ read_tag(payload, len_read)
  /\ UNCHANGED <<phase, out, input, payload, len_read, nexts, readers>>

\* A next() that steps to the end of the buffer when it returns EndOfTLV.
NextElementMovingOnEnd(overflow_checks) ==
  /\ Callable
  /\ LET r == next(payload, len_read, overflow_checks) IN
       /\ len_read' = IF IsOk(r) THEN r.len_read
                       ELSE IF r.status = "EndOfTLV" THEN Len(payload) ELSE len_read
       /\ nexts' = IF IsOk(r) THEN nexts + 1 ELSE nexts
       /\ res' = [op |-> "next", at |-> len_read, status |-> r.status]
  /\ UNCHANGED <<phase, out, input, payload, readers>>

NextElement(overflow_checks) ==
  /\ Callable
  /\ LET r == next(payload, len_read, overflow_checks) IN
       /\ len_read' = IF IsOk(r) THEN r.len_read ELSE len_read
       /\ nexts' = IF IsOk(r) THEN nexts + 1 ELSE nexts
       /\ res' = [op |-> "next", at |-> len_read, status |-> r.status]
  /\ UNCHANGED <<phase, out, input, payload, readers>>

\* TLVReader::tlv_type on the type bits of the control byte at the cursor.
DecodeType ==
  /\ Callable
  /\ LET cb == parse_control_byte(payload, len_read) IN
       /\ IsOk(cb)
       /\ res' = [op |-> "tlv_type", at |-> len_read, arg |-> cb.element_type_byte]
                   @@ tlv_type(cb.element_type_byte)
  /\ UNCHANGED <<phase, out, input, payload, len_read, nexts, readers>>

\* TLVReader::parse_control_byte at the cursor.
ParseControlByte ==
  /\ Callable
  /\ LET cb == parse_control_byte(payload, len_read) IN
       res' = IF IsOk(cb)
              THEN [op |-> "parse_control_byte", at |-> len_read, status |-> "Ok",
                    tag_control_byte |-> cb.tag_control_byte,
                    element_type_byte |-> cb.element_type_byte]
              ELSE [op |-> "parse_control_byte", at |-> len_read] @@ cb
  /\ UNCHANGED <<phase, out, input, payload, len_read, nexts, readers>>

\* tags::parse_tag on the bytes at the cursor: the tag control byte passed is
\* the first byte as it is, or (masked) that byte with only its top three
\* bits kept, as parse_control_byte_for_tag_and_type passes it.
ParseTag(masked) ==
  /\ Callable
  /\ len_read < Len(payload)
  /\ LET bytes == current_element(payload, len_read, 0)
         tag_control_byte == IF masked THEN shl(bytes[1] \div 32) ELSE bytes[1]
         r == parse_tag(tag_control_byte, Drop(bytes, 1))
     IN res' = [op |-> "parse_tag", at |-> len_read, arg |-> tag_control_byte,
                consumed |-> IF IsOk(r) THEN Len(bytes) - 1 - Len(r.rest) ELSE 0] @@ r
  /\ UNCHANGED <<phase, out, input, payload, len_read, nexts, readers>>

Next ==
  \/ \E e \in Elements : Write(e)
  \/ \E value \in ValueSamples \cup LongValues : WriteUntagged(value)
  \/ \E types \in {UTF8StringTypes, ByteStringTypes}, val_len \in LenSamples :
       EncodeLen(types, val_len)
  \/ \E tag \in FamilyTags, element_type \in ElementTypeValues :
       EncodePrimitive(tag, element_type)
  \/ \E k \in 0..MaxCut : NewReader(k)
  \/ \E acc \in Accessors : Read(acc)
  \/ ReadTag
  \/ \E overflow_checks \in BOOLEAN : NextElement(overflow_checks)
  \/ DecodeType
  \/ ParseControlByte
  \/ \E masked \in BOOLEAN : ParseTag(masked)

Spec == Init /\ [][Next]_vars

(***************************************************************************)
(* Several Readers over the same bytes: TLVReader::new copies the bytes    *)
(* into each Reader's own payload, and the calls on the Readers interleave *)
(* in any order.  `input.overflow_checks` is the build's overflow setting. *)
(***************************************************************************)
\* Most calls made on one Reader.
MaxCalls == 3

ReaderIds == {1, 2}

ReaderOps == {"next", "read_u64", "read_char_str"}

\* A boolean, then a string under a two-octet tag whose eight-byte length
\* field declares 2^64 - 12 bytes (one more element behind it): the string's
\* element length is 2^64 - 1.
WrapBuffer ==
  <<\h08, \h4F, 1, 0, \hF4, 255, 255, 255, 255, 255, 255, 255, \h08>>

\* Three encoded elements; a container followed by an element; a string
\* whose declared length overflows the cursor arithmetic; WrapBuffer.
ReaderBuffers ==
  {WrapBuffer} \cup
  {encode_tlv_with_tag(Num("u64", <<0, 9, \h502F, \h9000>>), Anonymous)
     \o encode_tlv_with_tag(Str(<<72, 101, 108, 108, 111, 33>>), ContextSpecific(I(1)))
     \o encode_tlv_with_tag(Num("u64", I(7)), Anonymous),
   <<\h15, \h24, 1, 42, \h18, \h04, 7>>,
   <<\h0F>> \o Repeat(255, 17)}

\* One call on a Reader (payload p, cursor c): what it returned, the cursor
\* it was made at and the cursor it left.
ReaderStep(p, c, op, overflow_checks) ==
  LET r == IF op = "next" THEN next(p, c, overflow_checks) ELSE call(op, p, c)
  IN [op |-> op, at |-> c, to |-> IF op = "next" /\ IsOk(r) THEN r.len_read ELSE c] @@ r

InitReaders ==
  /\ phase = "readers"
  /\ out \in ReaderBuffers
  /\ \E b \in BOOLEAN :
       input = [elems |-> <<>>, raw |-> TRUE, cut |-> 0, overflow_checks |-> b]
  /\ payload = <<>>
  /\ len_read = 0
  /\ nexts = 0
  /\ res = [op |-> "none", status |-> "Ok"]
  /\ readers = [i \in ReaderIds |-> [payload |-> out, len_read |-> 0, trace |-> <<>>]]

\* A call of one Reader changing a cursor that all Readers share.
ReaderCallSharedCursor(i, op) ==
  LET r == readers[i]
      step == ReaderStep(r.payload, r.len_read, op, input.overflow_checks)
  IN /\ phase = "readers"
     /\ Len(r.trace) < MaxCalls
     /\ IF r.trace = <<>> THEN TRUE ELSE r.trace[Len(r.trace)].status # "Panic"
     /\ readers' = [j \in ReaderIds |->
                      [readers[j] EXCEPT !.len_read = step.to,
                                         !.trace = IF j = i THEN Append(@, step) ELSE @]]
     /\ UNCHANGED <<phase, out, input, payload, len_read, nexts, res>>

\* A call of next() or of an accessor on Reader i (which has not panicked).
ReaderCall(i, op) ==
  LET r == readers[i]
      step == ReaderStep(r.payload, r.len_read, op, input.overflow_checks)
  IN /\ phase = "readers"
     /\ Len(r.trace) < MaxCalls
     /\ IF r.trace = <<>> THEN TRUE ELSE r.trace[Len(r.trace)].status # "Panic"
     /\ readers' = [readers EXCEPT ![i].len_read = step.to,
                                   ![i].trace = Append(@, step)]
     /\ UNCHANGED <<phase, out, input, payload, len_read, nexts, res>>

NextReaders == \E i \in ReaderIds, op \in ReaderOps : ReaderCall(i, op)

SpecReaders == InitReaders /\ [][NextReaders]_vars

(***************************************************************************)
(* The length-field reads of TLVFieldSize applied to byte sequences of     *)
(* every length from none to more than eight (phase "field"): `out` holds  *)
(* the bytes, `res` the last call and its result.                          *)
(***************************************************************************)
TLVFieldSize == {"OneOctet", "TwoOctets", "FourOctets", "EightOctets"}

\* impl TryFrom<u8> for TLVFieldSize, by the discriminants of the enum.
TLVFieldSize_try_from(field_size) ==
  CASE field_size = 0 -> [status |-> "Ok", value |-> "OneOctet"]
    [] field_size = 1 -> [status |-> "Ok", value |-> "TwoOctets"]
    [] field_size = 2 -> [status |-> "Ok", value |-> "FourOctets"]
    [] field_size = 3 -> [status |-> "Ok", value |-> "EightOctets"]
    [] OTHER -> Err("InvalidType")

\* Byte sequences whose first 1, 2, 4 and 8 bytes announce lengths below,
\* at and above the number of bytes that follow.
FieldPatterns ==
  {<<2, 0, 0, 0, 0, 0, 0, 0, 7, 9, 11>>,
   <<3, 0, 1, 0, 5, 0, 0, 0, 0, 0, 0, 0, 4>>,
   <<0, 1, 0, 0, 0, 0, 0, 0, 8>>,
   <<1, 0, 0, 0, 0, 0, 0, 128, 6>>,
   <<0, 0, 0, 0, 0, 0, 0, 0>>,
   Repeat(255, 9)}

FieldBytes ==
  UNION {{SubSeq(b, 1, n) : n \in 0..Len(b)} : b \in FieldPatterns}

InitField ==
  /\ phase = "field"
  /\ out \in FieldBytes
  /\ input = [elems |-> <<>>, raw |-> TRUE, cut |-> 0]
  /\ payload = <<>>
  /\ len_read = 0
  /\ nexts = 0
  /\ res = [op |-> "none", status |-> "Ok"]
  /\ readers = <<>>

\* field_size.parse_field_size(bytes)
ParseFieldSize(field_size) ==
  /\ phase = "field"
  /\ res' = [op |-> "parse_field_size", field_size |-> field_size]
               @@ parse_field_size(field_size, out)
  /\ UNCHANGED <<phase, out, input, payload, len_read, nexts, readers>>

\* field_size.extract_field_sized_bytes(bytes)
ExtractFieldSizedBytes(field_size) ==
  /\ phase = "field"
  /\ res' = [op |-> "extract_field_sized_bytes", field_size |-> field_size]
               @@ extract_field_sized_bytes(field_size, out)
  /\ UNCHANGED <<phase, out, input, payload, len_read, nexts, readers>>

NextField ==
  \/ \E field_size \in TLVFieldSize : ParseFieldSize(field_size)
  \/ \E field_size \in TLVFieldSize : ExtractFieldSizedBytes(field_size)

SpecField == InitField /\ [][NextField]_vars

(***************************************************************************)
(* The wire format as the specification tabulates it, for stating what the *)
(* Reader must return.                                                     *)
(***************************************************************************)
\* The accessor that matches a written value's kind.
AccessorOf ==
  [u8 |-> "read_u8", u16 |-> "read_u16", u32 |-> "read_u32", u64 |-> "read_u64",
   i8 |-> "read_i8", i16 |-> "read_i16", i32 |-> "read_i32", i64 |-> "read_i64",
   f32 |-> "read_f32", f64 |-> "read_f64", bool |-> "read_bool", null |-> "read_null",
   String |-> "read_char_str", Bytes |-> "read_byte_str"]

\* The concatenated encodings of a sequence of elements.
RECURSIVE Encoding(_)
Encoding(es) ==
  IF es = <<>> THEN <<>>
  ELSE encode_tlv_with_tag(Head(es).value, Head(es).tag) \o Encoding(Tail(es))

\* Where the i-th element of the sequence starts in its encoding.
Offset(es, i) == Len(Encoding(SubSeq(es, 1, i - 1)))

\* A Reader exists over the complete encoding of the elements written.
WellFormed == phase = "read" /\ ~input.raw /\ input.cut = 0 /\ Len(input.elems) >= 1

\* Tag octets by tag-control family (the top three bits of the control byte).
TagOctets == <<0, 1, 2, 4, 2, 4, 6, 8>>

PrimitiveCodes == 0..20
ContainerCodes == {21, 22, 23}

\* Octets of the length field by type code: 1, 2, 4, 8 for the four string
\* codes of each kind, none for the others.
LenFieldOctets(code) == IF code \in 12..19 THEN 2^((code - 12) % 4) ELSE 0

\* Octets of the value of a type code without length field.
ValueOctets(code) ==
  CASE code \in 0..3 -> 2^code
    [] code \in 4..7 -> 2^(code - 4)
    [] code \in {8, 9, 20} -> 0
    [] code = 10 -> 4
    [] code = 11 -> 8
    [] OTHER -> 0

\* c + e for the primitive element whose control byte is at offset c of p:
\* the offset just past it, with Len(p) + 1 standing for every offset
\* beyond the buffer (a length field cut short or declaring more than the
\* buffer holds).
ElementEnd(p, c) ==
  LET L == Len(p)
      code == p[c + 1] % 32
      w == LenFieldOctets(code)
      at == c + 1 + TagOctets[(p[c + 1] \div 32) + 1]
  IN IF at + w > L THEN L + 1
     ELSE IF w = 0 THEN IF at + ValueOctets(code) > L THEN L + 1
                        ELSE at + ValueOctets(code)
     ELSE IF \E i \in 3..w : p[at + i] # 0 THEN L + 1
     ELSE LET d == p[at + 1] + (IF w >= 2 THEN 256 * p[at + 2] ELSE 0)
          IN IF at + w + d > L THEN L + 1 ELSE at + w + d

\* The offset just past the EndOfContainer that closes the container opened
\* `depth` levels above offset pos, by the depth-counting scan; Len(p) + 1
\* when the buffer ends first.
RECURSIVE SkipEnd(_, _, _)
SkipEnd(p, pos, depth) ==
  IF pos >= Len(p) THEN Len(p) + 1
  ELSE LET code == p[pos + 1] % 32 IN
       IF code \in ContainerCodes
         THEN SkipEnd(p, pos + 1 + TagOctets[(p[pos + 1] \div 32) + 1], depth + 1)
       ELSE IF code = 24
         THEN IF depth = 1 THEN pos + 1 ELSE SkipEnd(p, pos + 1, depth - 1)
       ELSE IF code \in PrimitiveCodes /\ ElementEnd(p, pos) <= Len(p)
         THEN SkipEnd(p, ElementEnd(p, pos), depth)
       ELSE Len(p) + 1

\* The last call was next() on an element with one of the given type codes.
NextCalledOn(codes) ==
  /\ phase = "read"
  /\ res.op = "next"
  /\ res.at < Len(payload)
  /\ payload[res.at + 1] % 32 \in codes

\* The tag octets that the control byte at offset c announces are there.
TagComplete(p, c) == c + 1 + TagOctets[(p[c + 1] \div 32) + 1] <= Len(p)

\* What next() must do for an element that ends at offset end: fail with
\* UnderRun beyond the buffer, with EndOfTLV at its end, move there otherwise.
NextOutcome(end) ==
  IF end > Len(payload) THEN res.status = "UnderRun" /\ len_read = res.at
  ELSE IF end = Len(payload) THEN res.status = "EndOfTLV" /\ len_read = res.at
  ELSE res.status = "Ok" /\ len_read = end

(***************************************************************************)
(* Properties                                                              *)
(***************************************************************************)
\* C1: round trip.  For a Reader over the bytes encode_tlv_with_tag produced
\* for one value of any encodable kind under any tag variant, read_tag()
\* returns that tag and the accessor of the value's kind returns that value.
C1_RoundTrip ==
  (WellFormed /\ Len(input.elems) = 1) =>
    /\ res.op = "read_tag" => res.status = "Ok" /\ res.tag = input.elems[1].tag
    /\ res.op = AccessorOf[input.elems[1].value.kind] =>
         res.status = "Ok" /\ res.value = input.elems[1].value

C1_Witness ==
  /\ WellFormed
  /\ Len(input.elems) = 1
  /\ input.elems[1].tag.variant = "FullyQualified8"
  /\ input.elems[1].value = Num("i64", <<\h8000, 0, 0, 0>>)
  /\ res.op = "read_i64"
  /\ res.status = "Ok"

\* C2: sequencing.  Over the concatenated encodings of N elements, after i-1
\* successful calls of next() the cursor is on the control byte of the i-th
\* element and the reads return the i-th tag and value; next() returns Ok on
\* each of the first N-1 elements and EndOfTLV, and nothing else, on the N-th.
C2_Sequencing ==
  WellFormed =>
    LET N == Len(input.elems)
        current == input.elems[nexts + 1]
    IN /\ payload = Encoding(input.elems)
       /\ nexts < N
       /\ len_read = Offset(input.elems, nexts + 1)
       /\ res.op = "read_tag" => res.status = "Ok" /\ res.tag = current.tag
       /\ res.op = AccessorOf[current.value.kind] =>
            res.status = "Ok" /\ res.value = current.value
       /\ res.op = "next" =>
            \/ /\ res.status = "Ok"
               /\ res.at = Offset(input.elems, nexts)
            \/ /\ res.status = "EndOfTLV"
               /\ nexts = N - 1
               /\ res.at = len_read

C2_Witness ==
  /\ WellFormed
  /\ Len(input.elems) = 3
  /\ nexts = 2
  /\ res.op = "next"
  /\ res.status = "EndOfTLV"
  /\ input.elems[3].value.kind = "String"

\* C3: truncation.  For a Reader over the encoding of one element with its
\* last byte removed, the accessor of that element's kind returns UnderRun.
C3_TruncationUnderRun ==
  (phase = "read" /\ ~input.raw /\ Len(input.elems) = 1 /\ input.cut = 1
     /\ res.op = AccessorOf[input.elems[1].value.kind])
    => res.status = "UnderRun"

\* C4: next() on a primitive element that starts at cursor c (control byte
\* and tag present) and ends at c + e returns UnderRun if c + e exceeds the
\* buffer length, EndOfTLV if it equals it, and otherwise returns Ok and
\* moves the cursor to c + e.
C4_NextOutcome ==
  (NextCalledOn(PrimitiveCodes) /\ TagComplete(payload, res.at))
    => NextOutcome(ElementEnd(payload, res.at))

\* C5: next() on a Structure, Array or List returns Ok, EndOfTLV or UnderRun
\* (it does not abort), moving the cursor just past the EndOfContainer that
\* the depth-counting scan matches with the container.
C5_ContainerSkip ==
  NextCalledOn(ContainerCodes) => NextOutcome(SkipEnd(payload, res.at, 0))

\* C6: whenever the element at the cursor is a container, an operation of
\* the Reader yields a Reader positioned at the container's first member
\* (the offset just past the container's control byte and tag).
C6_EnterContainer ==
  (Callable /\ len_read < Len(payload)
     /\ payload[len_read + 1] % 32 \in ContainerCodes
     /\ TagComplete(payload, len_read))
    => ENABLED (Next /\ len_read' = len_read + 1
                          + TagOctets[(payload[len_read + 1] \div 32) + 1])

\* C7: a writer call can append a container's opening (the control byte of
\* the tag family and of the type code 0x15, 0x16 or 0x17, then the tag
\* bytes, nothing more) and a writer call can append the single byte 0x18.
C7_ContainerWriting ==
  (phase = "write" /\ ~input.raw /\ Len(input.elems) < MaxElems) =>
    /\ \A tag \in TagSamples, kind \in ContainerCodes :
         ENABLED (Next /\ out' = out \o <<TagControl_from(tag) + kind>> \o tag_bytes(tag))
    /\ ENABLED (Next /\ out' = out \o <<24>>)

\* The kind a type code stands for in the wire table.
KindOfCode(code) ==
  CASE code \in 0..3 -> "SignedInteger"
    [] code \in 4..7 -> "UnsignedInteger"
    [] code \in 8..9 -> "Boolean"
    [] code \in 10..11 -> "FloatingPointNumber"
    [] code \in 12..15 -> "UTF8String"
    [] code \in 16..19 -> "ByteString"
    [] code = 20 -> "Null"
    [] code = 21 -> "Structure"
    [] code = 22 -> "Array"
    [] code = 23 -> "List"
    [] code = 24 -> "EndOfContainer"

\* C8: decoding a 5-bit type code succeeds for each of the codes 0x00..0x18,
\* giving the kind and the width of the wire table (0x18: EndOfContainer),
\* and fails with InvalidType for every other code.
C8_TypeDecoding ==
  (phase = "read" /\ res.op = "tlv_type") =>
    IF res.arg \in 0..24
      THEN /\ res.status = "Ok"
           /\ res.value.prim = KindOfCode(res.arg)
           /\ res.value.class = "Predetermined" =>
                value_octets_count(res.value) = ValueOctets(res.arg)
           /\ res.value.class = "Specified" =>
                len_octets_count(length_field_size(res.value)) = LenFieldOctets(res.arg)
      ELSE res.status = "InvalidType"

\* The type codes each accessor accepts.
TypeCodesOf ==
  [read_u8 |-> {4}, read_u16 |-> {5}, read_u32 |-> {6}, read_u64 |-> {7},
   read_i8 |-> {0}, read_i16 |-> {1}, read_i32 |-> {2}, read_i64 |-> {3},
   read_f32 |-> {10}, read_f64 |-> {11}, read_bool |-> {8, 9}, read_null |-> {20},
   read_char_str |-> 12..15, read_byte_str |-> 16..19]

\* C9: an accessor returns a value only when the type code of the element at
\* the cursor is one of its own, and returns InvalidType when it is any other
\* of the codes 0x00..0x18.
C9_ExactTypeMatch ==
  (phase = "read" /\ res.op \in Accessors /\ res.at < Len(payload)) =>
    LET code == payload[res.at + 1] % 32 IN
      /\ res.status = "Ok" => code \in TypeCodesOf[res.op]
      /\ (code \in (0..24) \ TypeCodesOf[res.op] /\ TagComplete(payload, res.at))
           => res.status = "InvalidType"

C9_Witness ==
  /\ WellFormed
  /\ res.op = "read_char_str"
  /\ res.status = "InvalidType"
  /\ payload[res.at + 1] % 32 = 16
  /\ payload[res.at + 1] \div 32 = 6

\* The smallest of the widths 1, 2, 4, 8 whose length field holds n.
MinWidth(n) ==
  IF n[1] # 0 \/ n[2] # 0 THEN 8
  ELSE IF n[3] # 0 THEN 4
  ELSE IF n[4] > 255 THEN 2
  ELSE 1

\* The type code of a string kind (first code `base`) with a length field of
\* w octets.
StringCode(base, w) == base + (CASE w = 1 -> 0 [] w = 2 -> 1 [] w = 4 -> 2 [] w = 8 -> 3)

\* C10: for a UTF-8 or byte string of n bytes the encoders emit the length
\* field of the smallest width w in {1, 2, 4, 8} with n <= 2^(8w) - 1 and the
\* type code of that width (255: 1 octet, 256 and 65535: 2, 65536: 4).
C10_MinimalLengthField ==
  /\ (phase = "write" /\ res.op = "len_prefix") =>
       /\ Len(res.len_bytes) = MinWidth(res.val_len)
       /\ res.element_type = StringCode(res.types[1], MinWidth(res.val_len))
  /\ (phase = "write" /\ res.op = "encode"
        /\ input.elems[Len(input.elems)].value.kind \in {"String", "Bytes"}) =>
       LET e == input.elems[Len(input.elems)]
           n == Len(e.value.bytes)
           w == MinWidth(I(n))
           base == IF e.value.kind = "String" THEN 12 ELSE 16
       IN /\ res.bytes[1] % 32 = StringCode(base, w)
          /\ Len(res.bytes) = 1 + octets_count(e.tag) + w + n
          /\ to_le_bytes(I(n), w)
               = SubSeq(res.bytes, 2 + octets_count(e.tag), 1 + octets_count(e.tag) + w)

C10_Witness ==
  /\ phase = "write"
  /\ res.op = "len_prefix"
  /\ res.val_len = I(65536)
  /\ Len(res.len_bytes) = 4
  /\ res.element_type = 14

\* The offset of the first value byte of the string element at offset c.
StrStart(p, c) ==
  c + 1 + TagOctets[(p[c + 1] \div 32) + 1] + LenFieldOctets(p[c + 1] % 32)

\* The value bytes of the string element at offset c (which the buffer holds
\* whole).
StrValue(p, c) == SubSeq(p, StrStart(p, c) + 1, ElementEnd(p, c))

\* C11: a string or byte-string element whose length field has any of the
\* widths 1, 2, 4, 8 (minimal for the payload length or not) and whose bytes
\* are all in the buffer is read back by read_byte_str() / read_char_str() as
\* exactly the payload that follows the length field, and next() moves over
\* 1 + tag octets + width + payload length bytes.
C11_AnyLengthWidth ==
  (phase = "read" /\ res.op \in {"read_byte_str", "read_char_str", "next"}
     /\ res.at < Len(payload)
     /\ payload[res.at + 1] % 32 \in 12..19
     /\ TagComplete(payload, res.at)
     /\ ElementEnd(payload, res.at) <= Len(payload)) =>
    LET code == payload[res.at + 1] % 32
        value == StrValue(payload, res.at)
    IN /\ (res.op = "read_byte_str" /\ code \in 16..19) =>
            res.status = "Ok" /\ res.value = Bytes(value)
       /\ (res.op = "read_char_str" /\ code \in 12..15 /\ is_utf8(value)) =>
            res.status = "Ok" /\ res.value = Str(value)
       /\ res.op = "next" => NextOutcome(StrStart(payload, res.at) + Len(value))

\* A two-byte string behind an eight-byte length field is read back.
C11_Witness ==
  /\ phase = "read"
  /\ res.op = "read_char_str"
  /\ res.status = "Ok"
  /\ payload[res.at + 1] = \h2F
  /\ res.value = Str(<<72, 105>>)

\* The only element written is a u8 under a context-specific tag.
ContextTaggedU8 ==
  /\ ~input.raw
  /\ Len(input.elems) = 1
  /\ input.elems[1].tag.variant = "ContextSpecific"
  /\ input.elems[1].value.kind = "u8"

\* C12: encoding the u8 v under the tag ContextSpecific(n) gives exactly the
\* bytes 0x24, n, v, and a Reader over those bytes, at top level, returns
\* ContextSpecific(n) from read_tag() and v from read_u8(); neither rejects
\* the element.
C12_ContextTagBoundary ==
  ContextTaggedU8 =>
    LET n == input.elems[1].tag.tag_number
        v == input.elems[1].value.num
    IN /\ out = <<\h24, ToInt(n), ToInt(v)>>
       /\ (phase = "read" /\ input.cut = 0) =>
            /\ payload = <<\h24, ToInt(n), ToInt(v)>>
            /\ res.op = "read_tag" =>
                 res.status = "Ok" /\ res.tag = ContextSpecific(n)
            /\ res.op = "read_u8" =>
                 res.status = "Ok" /\ res.value = Num("u8", v)

C12_Witness ==
  /\ ContextTaggedU8
  /\ phase = "read"
  /\ payload = <<\h24, \h01, \h2A>>
  /\ res.op = "read_u8"
  /\ res.status = "Ok"
  /\ res.value.num = I(42)

\* Wire octets of a tag by variant.
VariantOctets ==
  [Anonymous |-> 0, ContextSpecific |-> 1, CommonProfile2 |-> 2, CommonProfile4 |-> 4,
   ImplicitProfile2 |-> 2, ImplicitProfile4 |-> 4, FullyQualified6 |-> 6,
   FullyQualified8 |-> 8]

\* The variant each tag control value selects.
VariantOfControl(b) ==
  <<"Anonymous", "ContextSpecific", "CommonProfile2", "CommonProfile4",
    "ImplicitProfile2", "ImplicitProfile4", "FullyQualified6", "FullyQualified8">>[(b \div 32) + 1]

\* C13: octets_count(tag) is 0/1/2/4/2/4/6/8 by variant whatever the numbers
\* in the tag, it is the length of tag_bytes(tag), and it is the number of
\* bytes parse_tag consumes when it decodes a tag of that family.
C13_TagWireSize ==
  /\ \A i \in 1..Len(input.elems) :
       LET tag == input.elems[i].tag IN
         /\ octets_count(tag) = VariantOctets[tag.variant]
         /\ Len(tag_bytes(tag)) = octets_count(tag)
  /\ (phase = "read" /\ res.op = "parse_tag" /\ res.status = "Ok") =>
       /\ res.tag.variant = VariantOfControl(res.arg)
       /\ res.consumed = octets_count(res.tag)
       /\ res.consumed = VariantOctets[res.tag.variant]
  /\ (WellFormed /\ res.op = "parse_tag"
        /\ res.arg = TagControl_from(input.elems[nexts + 1].tag)) =>
       /\ res.status = "Ok"
       /\ res.tag = input.elems[nexts + 1].tag
       /\ res.consumed = Len(tag_bytes(res.tag))

C13_Witness ==
  /\ WellFormed
  /\ res.op = "parse_tag"
  /\ res.status = "Ok"
  /\ res.tag = CommonProfile4(I(1))
  /\ res.consumed = 4

\* The eight tag control values.
FamilyValues == {\h00, \h20, \h40, \h60, \h80, \hA0, \hC0, \hE0}

\* C14: parse_tag(b, bytes) fails with InvalidTag exactly when b is none of
\* 0x00, 0x20, 0x40, 0x60, 0x80, 0xA0, 0xC0, 0xE0; for each of these it
\* decodes a tag of the corresponding family (when the tag's bytes are there).
C14_TagControlDecoding ==
  (phase = "read" /\ res.op = "parse_tag") =>
    /\ res.status = "InvalidTag" <=> res.arg \notin FamilyValues
    /\ res.status = "Ok" => res.tag.variant = VariantOfControl(res.arg)
    /\ (res.arg \in FamilyValues
          /\ res.at + 1 + TagOctets[(res.arg \div 32) + 1] <= Len(payload))
         => res.status = "Ok"

C14_Witness ==
  /\ phase = "read"
  /\ res.op = "parse_tag"
  /\ res.arg = \hC1
  /\ Len(payload) = 18
  /\ res.status = "InvalidTag"

\* a & b on bytes.
RECURSIVE BitAnd(_, _, _)
BitAnd(a, b, bits) ==
  IF bits = 0 THEN 0
  ELSE (IF a % 2 = 1 /\ b % 2 = 1 THEN 1 ELSE 0)
         + 2 * BitAnd(a \div 2, b \div 2, bits - 1)

\* C15: the control byte the encoder emits for the tag family f and the type
\* code c in 0x00..0x18 is f | c, f lying in bits 7-5 and c in bits 4-0, and
\* the Reader's split of that byte (top three bits, shifted back by 5; bottom
\* five bits) gives back (f, c); the Reader splits every byte b into
\* (b & 0xE0, b & 0x1F).
C15_ControlBytePacking ==
  /\ (phase = "write" /\ res.op = "encode_primitive") =>
       LET f == TagControl_from(res.tag)
           c == res.element_type
           b == res.bytes[1]
           cb == parse_control_byte(res.bytes, 0)
       IN /\ c \in 0..24
          /\ BitAnd(f, \h1F, 8) = 0
          /\ BitAnd(c, \hE0, 8) = 0
          /\ BitAnd(b, \hE0, 8) = f
          /\ BitAnd(b, \h1F, 8) = c
          /\ cb.status = "Ok"
          /\ shl(cb.tag_control_byte) = f
          /\ cb.element_type_byte = c
  /\ (phase = "read" /\ res.op = "parse_control_byte" /\ res.at < Len(payload)) =>
       LET b == payload[res.at + 1] IN
         /\ res.status = "Ok"
         /\ shl(res.tag_control_byte) = BitAnd(b, \hE0, 8)
         /\ res.element_type_byte = BitAnd(b, \h1F, 8)

C15_Witness ==
  /\ phase = "read"
  /\ res.op = "parse_control_byte"
  /\ res.status = "Ok"
  /\ payload[res.at + 1] = \hF8
  /\ res.tag_control_byte = 7
  /\ res.element_type_byte = \h18

\* The value bytes the wire format gives a value: the payload of a string,
\* the little-endian bytes of a number in the width of its type, none for a
\* boolean and for null.
ValueBytesOf(value) ==
  CASE value.kind \in {"String", "Bytes"} -> value.bytes
    [] value.kind \in {"bool", "null"} -> <<>>
    [] OTHER -> to_le_bytes(value.num, ValueOctets(CHOOSE c \in TypeCodesOf[AccessorOf[value.kind]] : TRUE))

\* C16: the encoding of a primitive is the control byte, then the tag bytes,
\* then (for strings and byte strings only) the length field, then the value
\* bytes, and nothing else: 1 + octets_count(tag) + length-field width +
\* value length bytes in all; booleans and null have neither length nor
\* value bytes.
C16_ElementLayout ==
  (phase = "write" /\ res.op = "encode") =>
    LET e == input.elems[Len(input.elems)]
        bytes == res.bytes
        code == bytes[1] % 32
        t == octets_count(e.tag)
        w == LenFieldOctets(code)
        value == ValueBytesOf(e.value)
    IN /\ code \in TypeCodesOf[AccessorOf[e.value.kind]]
       /\ bytes[1] - code = TagControl_from(e.tag)
       /\ SubSeq(bytes, 2, 1 + t) = tag_bytes(e.tag)
       /\ w > 0 <=> e.value.kind \in {"String", "Bytes"}
       /\ SubSeq(bytes, 2 + t, 1 + t + w) = to_le_bytes(I(Len(value)), w)
       /\ SubSeq(bytes, 2 + t + w, Len(bytes)) = value
       /\ Len(bytes) = 1 + t + w + Len(value)
       /\ e.value.kind \in {"bool", "null"} => Len(bytes) = 1 + t

C16_Witness ==
  /\ phase = "write"
  /\ res.op = "encode"
  /\ input.elems[Len(input.elems)]
       = Element(FullyQualified6(I(65521), I(57069), I(1)),
                 Str(<<72, 101, 108, 108, 111, 33>>))
  /\ Len(res.bytes) = 14
  /\ res.bytes[8] = 6

\* Byte i (byte 0 the least significant) of a pattern: (x \div 256^i) % 256.
ByteOf(v, i) == (v[4 - (i \div 2)] \div (IF i % 2 = 0 THEN 1 ELSE 256)) % 256

\* The w bytes b0 .. b(w-1) with x mod 2^(8w) = sum of b_i * 256^i.
LEBytes(v, w) == [j \in 1..w |-> ByteOf(v, j - 1)]

\* The wire bytes of a tag: vendor id, profile number, tag number, each
\* little-endian.
TagWire(tag) ==
  CASE tag.variant = "Anonymous" -> <<>>
    [] tag.variant \in {"FullyQualified6", "FullyQualified8"} ->
         LEBytes(tag.vendor_id, 2) \o LEBytes(tag.profile_number, 2)
           \o LEBytes(tag.tag_number, VariantOctets[tag.variant] - 4)
    [] OTHER -> LEBytes(tag.tag_number, VariantOctets[tag.variant])

NumberKinds == {"u8", "u16", "u32", "u64", "i8", "i16", "i32", "i64", "f32", "f64"}

NumberAccessors == {AccessorOf[k] : k \in NumberKinds}

\* The width in bytes of a number kind or of the value its accessor returns.
WidthOf(kind) == ValueOctets(CHOOSE c \in TypeCodesOf[AccessorOf[kind]] : TRUE)

\* C17: the value bytes b0 .. b(w-1) the encoder emits for a number x of
\* width w in {1, 2, 4, 8} (a signed x as its two's complement), and those the
\* Reader turns into x, satisfy x mod 2^(8w) = sum of b_i * 256^i; tag
\* numbers, vendor id and profile number (in the order vendor id, profile
\* number, tag number) and length fields have the same byte order.  The u64
\* 40000000000 under the Anonymous tag is 07 00 90 2F 50 09 00 00 00.
C17_LittleEndian ==
  /\ (phase = "write" /\ res.op = "encode") =>
       LET e == input.elems[Len(input.elems)]
           t == octets_count(e.tag)
       IN /\ SubSeq(res.bytes, 2, 1 + t) = TagWire(e.tag)
          /\ e.value.kind \in NumberKinds =>
               SubSeq(res.bytes, 2 + t, Len(res.bytes))
                 = LEBytes(e.value.num, WidthOf(e.value.kind))
          /\ e = Element(Anonymous, Num("u64", <<0, 9, \h502F, \h9000>>)) =>
               res.bytes = <<\h07, \h00, \h90, \h2F, \h50, \h09, \h00, \h00, \h00>>
  /\ (phase = "write" /\ res.op = "len_prefix") =>
       res.len_bytes = LEBytes(res.val_len, Len(res.len_bytes))
  /\ (phase = "read" /\ res.op \in NumberAccessors /\ res.status = "Ok") =>
       LET start == res.at + 1 + TagOctets[(payload[res.at + 1] \div 32) + 1]
           w == WidthOf(res.value.kind)
       IN /\ AccessorOf[res.value.kind] = res.op
          /\ SubSeq(payload, start + 1, start + w) = LEBytes(res.value.num, w)
  /\ (phase = "read" /\ res.op = "read_tag" /\ res.status = "Ok") =>
       SubSeq(payload, res.at + 2, res.at + 1 + octets_count(res.tag)) = TagWire(res.tag)

C17_Witness ==
  /\ WellFormed
  /\ payload = <<\h07, \h00, \h90, \h2F, \h50, \h09, \h00, \h00, \h00>>
  /\ res.op = "read_u64"
  /\ res.status = "Ok"
  /\ res.value.num = <<0, 9, \h502F, \h9000>>

\* C18: value.encode_tlv() returns the bytes of
\* value.encode_tlv_with_tag(Anonymous), and encode_null() those of
\* encode_null_with_tag(Anonymous); bits 7-5 of the first byte are zero and
\* no tag bytes follow it (the length field or the value does).
C18_UntaggedIsAnonymous ==
  (phase = "write" /\ res.op = "encode_tlv") =>
    LET value == input.elems[1].value
        w == LenFieldOctets(res.bytes[1] % 32)
    IN /\ input.elems[1].tag = Anonymous
       /\ value.kind # "null" => res.bytes = encode_tlv_with_tag(value, Anonymous)
       /\ value.kind = "null" => res.bytes = encode_null_with_tag(Anonymous)
       /\ res.bytes[1] \div 32 = 0
       /\ SubSeq(res.bytes, 2 + w, Len(res.bytes)) = ValueBytesOf(value)
       /\ SubSeq(res.bytes, 2, 1 + w) = LEBytes(I(Len(ValueBytesOf(value))), w)

C18_Witness ==
  /\ phase = "write"
  /\ res.op = "encode_tlv"
  /\ input.elems[1].value = Num("i16", I(-23254))
  /\ res.bytes = <<\h01, \h2A, \hA5>>

\* C19: a call of read_<kind>() or of read_tag(), successful or not, leaves
\* the Reader's cursor and buffer as they were, and the same call made again
\* at the same position returns the same result.
C19_AccessorsKeepCursor ==
  [][(phase = "read" /\ phase' = "read" /\ res'.op \in Accessors \cup {"read_tag"}) =>
       /\ len_read' = len_read
       /\ payload' = payload
       /\ res'.at = len_read
       /\ res' = [op |-> res'.op, at |-> len_read']
                   @@ (IF res'.op = "read_tag" THEN read_tag(payload', len_read')
                       ELSE call(res'.op, payload', len_read'))
       /\ (res.op = res'.op /\ res.at = res'.at) => res' = res]_vars

\* An accessor has returned a value with the cursor on the second element,
\* and the cursor is still there.
C19_Witness ==
  /\ WellFormed
  /\ nexts = 1
  /\ res.op = "read_i32"
  /\ res.status = "Ok"
  /\ res.at = len_read
  /\ len_read > 0

\* The calls a single Reader over p, started at cursor c, returns for the
\* operations ops made one after the other.
RECURSIVE RunAlone(_, _, _, _)
RunAlone(p, c, ops, overflow_checks) ==
  IF ops = <<>> THEN <<>>
  ELSE LET step == ReaderStep(p, c, Head(ops), overflow_checks)
       IN <<step>> \o RunAlone(p, step.to, Tail(ops), overflow_checks)

\* The operations of a trace, in order.
OpsOf(trace) == [k \in 1..Len(trace) |-> trace[k].op]

\* C20: of two Readers made over the same bytes, whatever the interleaving of
\* their read_<kind>() and next() calls, each returns the results and visits
\* the cursor positions it returns and visits when it runs alone, and each
\* one's bytes and cursor are changed by no call on the other.
C20_IndependentReaders ==
  phase = "readers" =>
    \A i \in ReaderIds :
      LET r == readers[i]
          alone == RunAlone(out, 0, OpsOf(r.trace), input.overflow_checks)
      IN /\ r.payload = out
         /\ r.trace = alone
         /\ r.len_read = IF alone = <<>> THEN 0 ELSE alone[Len(alone)].to

\* Reader 1 has moved twice and read the third element while Reader 2 has
\* read the first element twice and then moved once.
C20_Witness ==
  /\ phase = "readers"
  /\ OpsOf(readers[1].trace) = <<"next", "next", "read_u64">>
  /\ readers[1].trace[3].status = "Ok"
  /\ readers[1].trace[3].value.num = I(7)
  /\ OpsOf(readers[2].trace) = <<"read_u64", "read_u64", "next">>
  /\ readers[2].trace[2].value.num = <<0, 9, \h502F, \h9000>>
  /\ readers[2].len_read = 9
  /\ readers[1].len_read > readers[2].len_read

\* Octets of a length field by its size name.
WidthOfFieldSize ==
  [OneOctet |-> 1, TwoOctets |-> 2, FourOctets |-> 4, EightOctets |-> 8]

\* The number whose little-endian bytes are the first w of `bytes`, when it
\* is at most `most` (a buffer length); most + 1 when it is more.
LEValueUpTo(bytes, w, most) ==
  IF \E i \in 3..w : bytes[i] # 0 THEN most + 1
  ELSE LET d == bytes[1] + (IF w >= 2 THEN 256 * bytes[2] ELSE 0)
       IN IF d > most THEN most + 1 ELSE d

\* C21: parse_field_size of width w in {1, 2, 4, 8} fails with UnderRun on
\* fewer than w bytes and otherwise returns the little-endian unsigned value
\* of the first w bytes and the bytes after those w;
\* extract_field_sized_bytes fails with UnderRun also when that value is
\* more than the number of bytes that remain, and otherwise returns exactly
\* that many of them.
C21_LengthFieldRead ==
  (phase = "field" /\ res.op \in {"parse_field_size", "extract_field_sized_bytes"}) =>
    LET w == WidthOfFieldSize[res.field_size]
        remaining == Len(out) - w
    IN IF Len(out) < w THEN res.status = "UnderRun"
       ELSE /\ res.op = "parse_field_size" =>
                 /\ res.status = "Ok"
                 /\ LEBytes(res.value, 8) = SubSeq(out, 1, w) \o Repeat(0, 8 - w)
                 /\ res.rest = SubSeq(out, w + 1, Len(out))
            /\ res.op = "extract_field_sized_bytes" =>
                 LET d == LEValueUpTo(out, w, remaining) IN
                 IF d > remaining THEN res.status = "UnderRun"
                 ELSE /\ res.status = "Ok"
                      /\ res.bytes = SubSeq(out, w + 1, w + d)

C21_Witness ==
  /\ phase = "field"
  /\ res.op = "extract_field_sized_bytes"
  /\ res.field_size = "EightOctets"
  /\ res.status = "Ok"
  /\ res.bytes = <<7, 9>>

\* C22: next() on a string or byte-string element with an eight-byte length
\* field whose end cursor + 1 + tag octets + 8 + d, computed without
\* wraparound, lies beyond the buffer returns UnderRun and leaves the cursor
\* where it was, also for d within 9 + tag octets of 2^64.
C22_NoWraparound ==
  (NextCalledOn({\h0F, \h13}) /\ TagComplete(payload, res.at)
     /\ ElementEnd(payload, res.at) > Len(payload))
    => res.status = "UnderRun" /\ len_read = res.at

\* No byte of the buffer carries a container type code.
NoContainerCodes(p) == \A k \in 1..Len(p) : p[k] % 32 \notin ContainerCodes \cup {24}

\* C23: over a non-empty buffer without container codes, whatever calls of
\* next() and of the accessors are made, the cursor never decreases, grows
\* by at least 1 with every Ok of next(), and stays below the buffer length.
C23_CursorInvariant ==
  (phase = "readers" /\ out # <<>> /\ NoContainerCodes(out)) =>
    \A i \in ReaderIds :
      LET r == readers[i] IN
        /\ r.len_read < Len(r.payload)
        /\ \A k \in 1..Len(r.trace) :
             LET step == r.trace[k] IN
               /\ step.to >= step.at
               /\ (step.op = "next" /\ step.status = "Ok") => step.to >= step.at + 1
               /\ step.to < Len(r.payload)

\* C24: a next() that returns an error (EndOfTLV, UnderRun, ParseError,
\* InvalidTag, InvalidType) leaves the cursor where it was; so after an
\* EndOfTLV a further next() returns EndOfTLV again, and the accessors decode
\* the last element of the buffer.
C24_NextFailureKeepsCursor ==
  [][(phase = "read" /\ phase' = "read") =>
       /\ (res'.op = "next" /\ res'.status \in TLVError) =>
            len_read' = len_read /\ payload' = payload /\ nexts' = nexts
       /\ (res.op = "next" /\ res.status = "EndOfTLV") =>
            /\ res'.op = "next" => res'.status = "EndOfTLV" /\ res'.at = res.at
            /\ res'.op \in Accessors => res'.at = res.at
            /\ (WellFormed /\ res'.op = AccessorOf[input.elems[Len(input.elems)].value.kind]) =>
                 /\ res'.status = "Ok"
                 /\ res'.value = input.elems[Len(input.elems)].value]_vars

\* next() has returned EndOfTLV on the last of three elements.
C24_Witness ==
  /\ WellFormed
  /\ Len(input.elems) = 3
  /\ res.op = "next"
  /\ res.status = "EndOfTLV"
  /\ res.at = len_read
  /\ len_read = Offset(input.elems, 3)
  /\ input.elems[3].value.kind = "i32"

\* ---------------------------------------------------------------------------
\* A caller that iterates: it calls next() on one Reader until next() returns
\* something other than Ok. nexts counts the calls made, saturating one above
\* the buffer's length; a call that panics ends the caller.

IterateBuffers ==
  {b \in ReaderBuffers \cup RawBuffers
          \cup {Encoding(<<e1>>) : e1 \in SeqPool}
          \cup {Encoding(<<e1, e2>>) : e1 \in SeqPool, e2 \in SeqPool}
          \cup {Encoding(<<e1, e2, e3>>) : e1 \in SeqPool, e2 \in SeqPool, e3 \in SeqPool} :
     b # <<>> /\ NoContainerCodes(b)}

InitIterate ==
  /\ phase = "iterate"
  /\ out \in IterateBuffers
  /\ input \in {[elems |-> <<>>, raw |-> TRUE, cut |-> 0, overflow_checks |-> oc] :
                  oc \in BOOLEAN}
  /\ payload = out                                  \* TLVReader::new(&out)
  /\ len_read = 0
  /\ nexts = 0
  /\ res = [op |-> "none", status |-> "Ok"]
  /\ readers = <<>>

\* while reader.next().is_ok() {}
IterateNext ==
  /\ phase = "iterate"
  /\ res.status = "Ok"
  /\ LET r == next(payload, len_read, input.overflow_checks) IN
       /\ len_read' = IF IsOk(r) THEN r.len_read ELSE len_read
       /\ res' = [op |-> "next", at |-> len_read, status |-> r.status]
  /\ nexts' = IF nexts <= Len(payload) THEN nexts + 1 ELSE nexts
  /\ UNCHANGED <<phase, out, input, payload, readers>>

NextIterate == IterateNext

SpecIterate == InitIterate /\ [][NextIterate]_vars

\* C25: on a buffer of length L without container codes, a caller that calls
\* next() until it returns something other than Ok stops after at most L
\* calls, and every call returns a result value: the loop never makes call
\* number L + 1 and no call panics.
C25_IterationTerminates ==
  phase = "iterate" => nexts <= Len(payload) /\ res.status # "Panic"

\* The number of value bytes of each kind without length field.
ValueWidths ==
  [i8 |-> 1, i16 |-> 2, i32 |-> 4, i64 |-> 8, u8 |-> 1, u16 |-> 2, u32 |-> 4,
   u64 |-> 8, f32 |-> 4, f64 |-> 8, bool |-> 0, null |-> 0]

\* C26: the type code the writer emits for a primitive decodes on the reader
\* side to a type whose value_octets_count() is the number of value bytes the
\* writer emitted (0 for bool and null, 1/2/4/8 for integers, 4/8 for
\* floats); for strings and byte strings it decodes to a type whose
\* length_field_size() has as many octets as the writer emitted length bytes.
C26_WidthAgreement ==
  /\ (phase = "write" /\ res.op \in {"encode", "encode_tlv"}) =>
       LET e == input.elems[Len(input.elems)]
           t == tlv_type(res.bytes[1] % 32)
           after_tag == Len(res.bytes) - 1 - octets_count(e.tag)
       IN /\ t.status = "Ok"
          /\ IF e.value.kind \in {"String", "Bytes"}
               THEN /\ t.value.class = "Specified"
                    /\ t.value.prim = (IF e.value.kind = "String" THEN "UTF8String"
                                        ELSE "ByteString")
                    /\ len_octets_count(length_field_size(t.value))
                         = after_tag - Len(e.value.bytes)
               ELSE /\ t.value.class = "Predetermined"
                    /\ value_octets_count(t.value) = after_tag
                    /\ after_tag = ValueWidths[e.value.kind]
  /\ (phase = "write" /\ res.op = "len_prefix") =>
       LET t == tlv_type(res.element_type)
       IN /\ t.status = "Ok"
          /\ t.value.class = "Specified"
          /\ len_octets_count(length_field_size(t.value)) = Len(res.len_bytes)

\* The writer has emitted a 64-bit float under a tag of two octets.
C26_Witness ==
  /\ phase = "write"
  /\ res.op = "encode"
  /\ input.elems[Len(input.elems)].value.kind = "f64"
  /\ octets_count(input.elems[Len(input.elems)].tag) = 2
  /\ Len(res.bytes) = 11

\* ---------------------------------------------------------------------------
\* The two splits of the control byte, made by a Reader at the start of a
\* buffer.

InitControl ==
  /\ phase = "control"
  /\ out \in RawBuffers \cup {<<>>}
  /\ input = [elems |-> <<>>, raw |-> TRUE, cut |-> 0]
  /\ payload = out                                  \* TLVReader::new(&out)
  /\ len_read = 0
  /\ nexts = 0
  /\ res = [op |-> "none", status |-> "Ok"]
  /\ readers = <<>>

\* reader.parse_control_byte()
ControlByte ==
  /\ phase = "control"
  /\ res' = [op |-> "parse_control_byte"] @@ parse_control_byte(payload, len_read)
  /\ UNCHANGED <<phase, out, input, payload, len_read, nexts, readers>>

\* reader.parse_control_byte_with_field_size()
ControlByteWithFieldSize ==
  /\ phase = "control"
  /\ res' = [op |-> "parse_control_byte_with_field_size"]
               @@ parse_control_byte_with_field_size(payload, len_read)
  /\ UNCHANGED <<phase, out, input, payload, len_read, nexts, readers>>

NextControl == ControlByte \/ ControlByteWithFieldSize

SpecControl == InitControl /\ [][NextControl]_vars

\* The type codes of integers, floats and strings.
SizedCodes == (0..7) \cup (10..11) \cup (12..19)

\* C27: for every integer, float and string type code c, the low two bits of
\* c are the discriminant s of the TLVFieldSize whose octet count 2^s is the
\* element's value width (integers, floats) or length-field width (strings);
\* so the 3/3/2 split of the control byte yields a field-size code s and a
\* middle part with (middle << 2) | s = c.
C27_FieldSizeBits ==
  (phase = "control" /\ res.op = "parse_control_byte_with_field_size"
     /\ res.status = "Ok" /\ payload[1] % 32 \in SizedCodes) =>
    LET c == payload[1] % 32
        fs == TLVFieldSize_try_from(res.field_size)
        t == tlv_type(c)
    IN /\ res.field_size = c % 4
       /\ res.tag_control = payload[1] \div 32
       /\ bit_or((res.tlv_type * 4) % 256, res.field_size, 8) = c
       /\ fs.status = "Ok"
       /\ len_octets_count(fs.value) = 2^res.field_size
       /\ t.status = "Ok"
       /\ IF t.value.class = "Specified"
            THEN len_octets_count(length_field_size(t.value)) = len_octets_count(fs.value)
            ELSE /\ t.value.class = "Predetermined"
                 /\ value_octets_count(t.value) = len_octets_count(fs.value)

\* The control byte 0x07 (u64 under the Anonymous tag) has been split into
\* 0, 1 and 3.
C27_Witness ==
  /\ phase = "control"
  /\ res.op = "parse_control_byte_with_field_size"
  /\ res.status = "Ok"
  /\ payload[1] = 7
  /\ res.tag_control = 0
  /\ res.tlv_type = 1
  /\ res.field_size = 3

(***************************************************************************)
(* main.rs: the TLVReader of the binary.  The types it imports from        *)
(* crate::types (TLVElementType, TLVType, TLVPrimitiveLengthType and their *)
(* methods) are read as the ones types.rs defines under today's names.     *)
(***************************************************************************)
\* TLVReader::tlv_type of main.rs.  Slicing the payload from beyond its end
\* panics.
main_tlv_type(p, c) ==
  IF c > Len(p) THEN Panic
  ELSE Try(parse_control_byte(p, c), LAMBDA cb : tlv_type(cb.element_type_byte))

\* TLVReader::parse_len of main.rs: the length field read from the bytes
\* after the control byte.
main_parse_len(p, c, len_bytes_count) ==
  LET bytes_after_control_byte == current_element(p, c, 1) IN
  CASE len_bytes_count = 1 -> parse_u8(bytes_after_control_byte)
    [] len_bytes_count = 2 -> parse_u16(bytes_after_control_byte)
    [] len_bytes_count = 4 -> parse_u32(bytes_after_control_byte)
    [] len_bytes_count = 8 -> parse_u64(bytes_after_control_byte)
    [] OTHER -> Err("InvalidLen")

\* The element_len of next() in main.rs, a usize sum.
main_element_len(p, c, t) ==
  IF t.class = "Predetermined"
    THEN [status |-> "Ok", value |-> usize(I(value_octets_count(t)))]
  ELSE LET len_octets == len_octets_count(length_field_size(t)) IN
       Try(main_parse_len(p, c, len_octets), LAMBDA val_octets :
       [status |-> "Ok", value |-> usize_add(usize(I(len_octets)), usize(val_octets.value))])

\* TLVReader::next of main.rs.  An Ok result carries the new cursor.
main_next(p, c, overflow_checks) ==
  Try(main_tlv_type(p, c), LAMBDA t :
  IF t.value.class = "Container"
    THEN Panic                          \* todo!("Skip to the End of Container")
  ELSE
  Try(main_element_len(p, c, t.value), LAMBDA element_len :
  LET len_to_skip == usize_add(element_len.value, usize(I(1))) IN
  IF len_to_skip.overflow /\ overflow_checks THEN Panic
  ELSE IF ~IsSmall(len_to_skip.sum) \/ ToInt(len_to_skip.sum) > Len(p)
    THEN Err("OverRun")
  ELSE IF ToInt(len_to_skip.sum) = Len(p) - 1 THEN Err("EndOfTLV")
  ELSE [status |-> "Ok", len_read |-> c + ToInt(len_to_skip.sum)]))

\* ---------------------------------------------------------------------------
\* The Reader of main.rs and the Reader of reader.rs, each iterating with
\* next() over the same buffer of Anonymous-tagged primitive elements.

MainPool ==
  {Num("u64", <<0, 9, \h502F, \h9000>>), Num("u8", I(255)), Num("i32", I(-904534)),
   Str(<<72, 101, 108, 108, 111, 33>>), Bool(FALSE)}

MainElems ==
  {<<Element(Anonymous, v)>> : v \in ValueSamples}
    \cup {<<Element(Anonymous, v1), Element(Anonymous, v2)>> : v1 \in MainPool, v2 \in MainPool}
    \cup {<<Element(Anonymous, v1), Element(Anonymous, v2), Element(Anonymous, v3)>> :
            v1 \in MainPool, v2 \in MainPool, v3 \in MainPool}

MainReaders == {"main", "lib"}

InitMain ==
  /\ phase = "main"
  /\ \E es \in MainElems :
       /\ input = [elems |-> es, raw |-> FALSE, cut |-> 0]
       /\ out = Encoding(es)
  /\ payload = <<>>
  /\ len_read = 0
  /\ nexts = 0
  /\ res = [op |-> "none", status |-> "Ok"]
  /\ readers = [i \in MainReaders |-> [payload |-> out, len_read |-> 0, trace |-> <<>>]]

\* One next() of the Reader of main.rs (i = "main") or of reader.rs
\* (i = "lib"), which has not panicked.
MainCall(i, overflow_checks) ==
  LET r == readers[i]
      n == IF i = "main" THEN main_next(r.payload, r.len_read, overflow_checks)
           ELSE next(r.payload, r.len_read, overflow_checks)
      step == [op |-> "next", at |-> r.len_read, status |-> n.status,
               to |-> IF IsOk(n) THEN n.len_read ELSE r.len_read]
  IN /\ phase = "main"
     /\ Len(r.trace) < MaxCalls
     /\ IF r.trace = <<>> THEN TRUE ELSE r.trace[Len(r.trace)].status # "Panic"
     /\ readers' = [readers EXCEPT ![i].len_read = step.to,
                                   ![i].trace = Append(@, step)]
     /\ UNCHANGED <<phase, out, input, payload, len_read, nexts, res>>

NextMain == \E i \in MainReaders, overflow_checks \in BOOLEAN : MainCall(i, overflow_checks)

SpecMain == InitMain /\ [][NextMain]_vars

\* C28: on a buffer of Anonymous-tagged primitive elements the next() of
\* main.rs and the next() of reader.rs return the same result from the same
\* cursor, and the next() of main.rs advances to the control byte of the
\* following element when there is one and returns EndOfTLV without moving
\* exactly when the element at the cursor is the last one.
C28_MainFollowsReader ==
  phase = "main" =>
    LET m == readers["main"].trace
        l == readers["lib"].trace
        es == input.elems
    IN /\ \A k \in 1..Len(m) :
            k <= Len(l) /\ m[k].at = l[k].at =>
              m[k].status = l[k].status /\ m[k].to = l[k].to
       /\ \A k \in 1..Len(m) : \A i \in 1..Len(es) :
            m[k].at = Offset(es, i) =>
              IF i < Len(es)
                THEN m[k].status = "Ok" /\ m[k].to = Offset(es, i + 1)
                ELSE m[k].status = "EndOfTLV" /\ m[k].to = m[k].at

\* C29: read_tag(), every read_<kind>() and next() never return InvalidTag,
\* whatever the buffer and the cursor: the tag control they decode is the
\* control byte's top 3 bits shifted left by 5, one of the eight defined
\* families.
C29_InvalidTagUnreachable ==
  /\ (phase = "read" /\ res.op \in Accessors \cup {"read_tag", "next"}) =>
       res.status # "InvalidTag"
  /\ (phase = "read" /\ len_read < Len(payload)) =>
       LET cb == parse_control_byte(payload, len_read) IN
         /\ cb.status = "Ok"
         /\ shl(cb.tag_control_byte) \in TagControlValues
         /\ TagControl_try_from(shl(cb.tag_control_byte)).status = "Ok"

\* read_tag() has decoded a fully qualified 8-octet tag from the control
\* byte 0xE4, whose low five bits are not zero.
C29_Witness ==
  /\ phase = "read"
  /\ res.op = "read_tag"
  /\ res.status = "Ok"
  /\ payload[res.at + 1] = 228

\* ---------------------------------------------------------------------------
\* The two selectors of the length prefix, applied to a String or a Vec<u8>
\* (Bytes) of val_len bytes.

\* The lengths of LenSamples and some short ones; up to MaxPayload bytes the
\* payload itself (val_len times the letter A) is encoded.
PrefixLens == LenSamples \cup {I(2), I(5), I(6), I(7), I(128)}

MaxPayload == 257

InitPrefix ==
  /\ phase = "prefix"
  /\ input \in {[elems |-> <<>>, raw |-> FALSE, cut |-> 0, kind |-> k, val_len |-> n] :
                  k \in {"String", "Bytes"}, n \in PrefixLens}
  /\ out = <<>>
  /\ payload = <<>>
  /\ len_read = 0
  /\ nexts = 0
  /\ res = [op |-> "none", status |-> "Ok"]
  /\ readers = <<>>

\* String::parse_value(value), Vec::<u8>::parse_value(value)
ParseValue ==
  /\ phase = "prefix"
  /\ res' = [op |-> "parse_value", status |-> "Ok"]
               @@ (IF input.kind = "String" THEN parse_value_String(input.val_len)
                   ELSE parse_value_Vec(input.val_len))
  /\ UNCHANGED <<phase, out, input, payload, len_read, nexts, readers>>

\* value.encode_tlv_with_tag(Anonymous): the prefix the encoder selects and,
\* for a payload of up to MaxPayload bytes, its output.
EncodePrefix ==
  /\ phase = "prefix"
  /\ LET types == IF input.kind = "String" THEN UTF8StringTypes ELSE ByteStringTypes
         n == input.val_len
         val_bytes == Repeat(65, ToInt(n))
     IN res' = [op |-> "encode_prefix", status |-> "Ok",
                bytes |-> IF IsSmall(n) /\ ToInt(n) <= MaxPayload
                            THEN (IF input.kind = "String"
                                    THEN encode_String(val_bytes, Anonymous)
                                    ELSE encode_Bytes(val_bytes, Anonymous))
                          ELSE <<>>]
                 @@ len_prefix(types, n)
  /\ UNCHANGED <<phase, out, input, payload, len_read, nexts, readers>>

NextPrefix == ParseValue \/ EncodePrefix

SpecPrefix == InitPrefix /\ [][NextPrefix]_vars

\* C30: for every payload length n, parse_value of types.rs (String,
\* Vec<u8>) returns the element type code and the length bytes that the
\* encoders of writer.rs (String, Bytes) place in their output, and in both
\* the length bytes decode, little-endian, to n.
C30_SelectorsAgree ==
  /\ (phase = "prefix" /\ res.op = "parse_value") =>
       LET types == IF input.kind = "String" THEN UTF8StringTypes ELSE ByteStringTypes
           n == input.val_len
           w == len_prefix(types, n)
           enc == IF input.kind = "String"
                    THEN encode_String(Repeat(65, ToInt(n)), Anonymous)
                    ELSE encode_Bytes(Repeat(65, ToInt(n)), Anonymous)
       IN /\ res.element_type = w.element_type
          /\ res.len_bytes = w.len_bytes
          /\ le_word(res.len_bytes, Len(res.len_bytes), 0) = n
          /\ (IsSmall(n) /\ ToInt(n) <= MaxPayload) =>
               /\ enc[1] = res.element_type
               /\ SubSeq(enc, 2, 1 + Len(res.len_bytes)) = res.len_bytes
               /\ Len(enc) = 1 + Len(res.len_bytes) + ToInt(n)
  /\ (phase = "prefix" /\ res.op = "encode_prefix") =>
       /\ le_word(res.len_bytes, Len(res.len_bytes), 0) = input.val_len
       /\ res.bytes # <<>> =>
            /\ res.bytes[1] = res.element_type
            /\ SubSeq(res.bytes, 2, 1 + Len(res.len_bytes)) = res.len_bytes

\* parse_value has chosen the two-octet length field for a String of 256
\* bytes.
C30_Witness ==
  /\ phase = "prefix"
  /\ res.op = "parse_value"
  /\ input.kind = "String"
  /\ input.val_len = I(256)
  /\ res.element_type = ElementType.UTF8String2ByteLength
  /\ res.len_bytes = <<0, 1>>

====
